---- MODULE Spec2Model ----
(***************************************************************************)
(* Model of the shipment extraction post-processing (extract.py).          *)
(*                                                                         *)
(* Strings are tuples of one-character strings, so that substring tests,   *)
(* regular-expression searches, case conversion and length are computed    *)
(* as the Python code computes them.  A code point outside ASCII is named  *)
(* by its number ("U201A").  Numbers are integers counting thousandths, so *)
(* that round(x, 2) is a real operation.  None is the empty tuple and a    *)
(* present value v is the one-element tuple <<v>>.                          *)
(***************************************************************************)
EXTENDS Integers, Sequences, FiniteSets, TLC

\* ------------------------------------------------------------------------
\* Python values
\* ------------------------------------------------------------------------
Null == <<>>
Some(v) == <<v>>
Val(o) == o[1]

\* dict.get(k): None for a missing key
Get(d, k) == IF k \in DOMAIN d THEN d[k] ELSE Null

\* d[k] = v
Put(d, k, v) == [x \in (DOMAIN d) \cup {k} |-> IF x = k THEN v ELSE d[x]]

\* truth value of an optional string: None and "" are false
TruthyStr(o) == o # Null /\ Val(o) # <<>>

\* truth value of an optional number: None and 0 are false
TruthyNum(o) == o # Null /\ Val(o) # 0

\* ------------------------------------------------------------------------
\* Characters and strings
\* ------------------------------------------------------------------------
UpperLetters == <<"A", "B", "C", "D", "E", "F", "G", "H", "I", "J", "K", "L", "M", "N", "O", "P", "Q", "R", "S", "T", "U", "V", "W", "X", "Y", "Z">> \o <<"U00DC", "U00CD">>
LowerLetters == <<"a", "b", "c", "d", "e", "f", "g", "h", "i", "j", "k", "l", "m", "n", "o", "p", "q", "r", "s", "t", "u", "v", "w", "x", "y", "z">> \o <<"U00FC", "U00ED">>
Digits == <<"0", "1", "2", "3", "4", "5", "6", "7", "8", "9">>

IndexIn(seq, c) == CHOOSE i \in 1..Len(seq) : seq[i] = c
InSeq(seq, c) == \E i \in 1..Len(seq) : seq[i] = c

DigitValue == [c \in {Digits[i] : i \in 1..Len(Digits)} |-> IndexIn(Digits, c) - 1]
IsDigit(c) == c \in DOMAIN DigitValue
DigitVal(c) == DigitValue[c]
IsSpace(c) == c \in {" ", "\t", "\n", "\r", "\f"}
\* \w of the re module: letters, digits and the underscore
ToLower == [c \in {UpperLetters[i] : i \in 1..Len(UpperLetters)} |-> LowerLetters[IndexIn(UpperLetters, c)]]
ToUpper == [c \in {LowerLetters[i] : i \in 1..Len(LowerLetters)} |-> UpperLetters[IndexIn(LowerLetters, c)]]
IsWord(c) == c \in DOMAIN ToLower \/ c \in DOMAIN ToUpper \/ IsDigit(c) \/ c = "_"

LowerChar(c) == IF c \in DOMAIN ToLower THEN ToLower[c] ELSE c
UpperChar(c) == IF c \in DOMAIN ToUpper THEN ToUpper[c] ELSE c

\* str.lower(), str.upper()
Lower(s) == [i \in 1..Len(s) |-> LowerChar(s[i])]
Upper(s) == [i \in 1..Len(s) |-> UpperChar(s[i])]

\* s[i:i+len(sub)] == sub
MatchAt(sub, s, i) ==
    /\ i >= 1
    /\ i + Len(sub) - 1 <= Len(s)
    /\ \A j \in 1..Len(sub) : s[i + j - 1] = sub[j]

\* sub in s
Contains(sub, s) == \E i \in 1..(Len(s) - Len(sub) + 1) : MatchAt(sub, s, i)

\* s.find(sub) from position i, 1-based; 0 when absent
RECURSIVE FindFrom(_, _, _)
FindFrom(sub, s, i) ==
    IF i + Len(sub) - 1 > Len(s) THEN 0
    ELSE IF MatchAt(sub, s, i) THEN i
    ELSE FindFrom(sub, s, i + 1)

\* s.startswith(p)
StartsWith(s, p) == MatchAt(p, s, 1)

\* str.strip(): whitespace removed at both ends
Strip(s) ==
    IF \A i \in 1..Len(s) : IsSpace(s[i]) THEN <<>>
    ELSE LET a == CHOOSE i \in 1..Len(s) :
                     ~IsSpace(s[i]) /\ \A k \in 1..(i - 1) : IsSpace(s[k])
             b == CHOOSE i \in 1..Len(s) :
                     ~IsSpace(s[i]) /\ \A k \in (i + 1)..Len(s) : IsSpace(s[k])
         IN SubSeq(s, a, b)

\* s.split(sep): the pieces between the non-overlapping occurrences of sep
RECURSIVE SplitFrom(_, _, _)
SplitFrom(s, sep, i) ==
    LET k == FindFrom(sep, s, i)
    IN IF k = 0 THEN <<SubSeq(s, i, Len(s))>>
       ELSE <<SubSeq(s, i, k - 1)>> \o SplitFrom(s, sep, k + Len(sep))
Split(s, sep) == SplitFrom(s, sep, 1)

\* sep.join(parts)
RECURSIVE Join(_, _)
Join(sep, parts) ==
    IF Len(parts) = 0 THEN <<>>
    ELSE IF Len(parts) = 1 THEN parts[1]
    ELSE parts[1] \o sep \o Join(sep, Tail(parts))

\* s.replace(old, new), old non-empty
RECURSIVE ReplaceFrom(_, _, _, _)
ReplaceFrom(s, old, new, i) ==
    LET k == FindFrom(old, s, i)
    IN IF k = 0 THEN SubSeq(s, i, Len(s))
       ELSE SubSeq(s, i, k - 1) \o new \o ReplaceFrom(s, old, new, k + Len(old))
Replace(s, old, new) == ReplaceFrom(s, old, new, 1)

\* first index after the run of digits (spaces) that starts at i
RECURSIVE DigitRunEnd(_, _)
DigitRunEnd(s, i) ==
    IF i <= Len(s) /\ IsDigit(s[i]) THEN DigitRunEnd(s, i + 1) ELSE i
RECURSIVE SpaceRunEnd(_, _)
SpaceRunEnd(s, i) ==
    IF i <= Len(s) /\ IsSpace(s[i]) THEN SpaceRunEnd(s, i + 1) ELSE i

\* ------------------------------------------------------------------------
\* Numbers: thousandths
\* ------------------------------------------------------------------------
\* round(x, 2) for x >= 0 in thousandths: nearest hundredth, an exact half
\* to the even hundredth
RoundPos(m) ==
    LET r == m % 10
        lo == m - r
    IN IF r < 5 THEN lo
       ELSE IF r > 5 THEN lo + 10
       ELSE IF (lo \div 10) % 2 = 0 THEN lo ELSE lo + 10

\* round(x, 2)
Round2(m) == IF m >= 0 THEN RoundPos(m) ELSE 0 - RoundPos(0 - m)

\* int of the digits in s[i..j-1], commas skipped
RECURSIVE IntOfDigits(_, _, _, _)
IntOfDigits(s, i, j, acc) ==
    IF i >= j THEN acc
    ELSE IF IsDigit(s[i]) THEN IntOfDigits(s, i + 1, j, acc * 10 + DigitVal(s[i]))
    ELSE IntOfDigits(s, i + 1, j, acc)

\* round(float(t), 2) for a decimal literal t = digits [. digits]:
\* the first three decimals decide, later non-zero decimals break a tie upward
ParseRound2(t) ==
    LET dot == FindFrom(<<".">>, t, 1)
        ip == IF dot = 0 THEN t ELSE SubSeq(t, 1, dot - 1)
        fp == IF dot = 0 THEN <<>> ELSE SubSeq(t, dot + 1, Len(t))
        d(k) == IF k <= Len(fp) THEN DigitVal(fp[k]) ELSE 0
        milli == IntOfDigits(ip, 1, Len(ip) + 1, 0) * 1000 + d(1) * 100 + d(2) * 10 + d(3)
        sticky == \E k \in 4..Len(fp) : fp[k] # "0"
    IN IF sticky /\ d(3) = 5 THEN Round2(milli + 1) ELSE Round2(milli)

\* float(t) for a literal of digits only
ParseInt(t) == IntOfDigits(t, 1, Len(t) + 1, 0) * 1000

\* s with every "," removed
StripCommas(s) == Replace(s, <<",">>, <<>>)

\* ------------------------------------------------------------------------
\* Regular-expression searches of post_process_extraction.  Each returns
\* group 1 of the leftmost match as Some(text), or Null: XxxOk(s, i) is
\* whether the pattern matches at start i, XxxStart the first such start
\* (0 if none).
\* ------------------------------------------------------------------------
\* literal "kg" at i ("kg|kgs" matches wherever "kg" does)
KgAt(s, i) == MatchAt(<<"k", "g">>, s, i)

\* (\d+\.?\d*)\s*rt
RtEnd(s, i) ==
    LET a == DigitRunEnd(s, i)
        b == IF a <= Len(s) /\ s[a] = "." THEN DigitRunEnd(s, a + 1) ELSE a
    IN b
RtOk(s, i) ==
    /\ IsDigit(s[i])
    /\ MatchAt(<<"r", "t">>, s, SpaceRunEnd(s, RtEnd(s, i)))
RECURSIVE RtStart(_, _)
RtStart(s, i) ==
    IF i > Len(s) THEN 0 ELSE IF RtOk(s, i) THEN i ELSE RtStart(s, i + 1)
RtSearch(s) ==
    LET i == RtStart(s, 1)
    IN IF i = 0 THEN Null ELSE Some(SubSeq(s, i, RtEnd(s, i) - 1))

\* (\d{1,3}(?:,\d{3})+)\s*(?:kg|kgs)
RECURSIVE CommaGroupsEnd(_, _)
CommaGroupsEnd(s, i) ==
    IF /\ i + 3 <= Len(s)
       /\ s[i] = ","
       /\ IsDigit(s[i + 1]) /\ IsDigit(s[i + 2]) /\ IsDigit(s[i + 3])
    THEN CommaGroupsEnd(s, i + 4)
    ELSE i
CommaEnd(s, i) == CommaGroupsEnd(s, DigitRunEnd(s, i))
CommaOk(s, i) ==
    /\ IsDigit(s[i])
    /\ DigitRunEnd(s, i) - i <= 3
    /\ CommaEnd(s, i) > DigitRunEnd(s, i)
    /\ KgAt(s, SpaceRunEnd(s, CommaEnd(s, i)))
RECURSIVE CommaStart(_, _)
CommaStart(s, i) ==
    IF i > Len(s) THEN 0 ELSE IF CommaOk(s, i) THEN i ELSE CommaStart(s, i + 1)
CommaSearch(s) ==
    LET i == CommaStart(s, 1)
    IN IF i = 0 THEN Null ELSE Some(SubSeq(s, i, CommaEnd(s, i) - 1))

\* (\d+)\s*(?:kg|kgs)
PlainOk(s, i) ==
    /\ IsDigit(s[i])
    /\ KgAt(s, SpaceRunEnd(s, DigitRunEnd(s, i)))
RECURSIVE PlainStart(_, _)
PlainStart(s, i) ==
    IF i > Len(s) THEN 0 ELSE IF PlainOk(s, i) THEN i ELSE PlainStart(s, i + 1)
PlainSearch(s) ==
    LET i == PlainStart(s, 1)
    IN IF i = 0 THEN Null ELSE Some(SubSeq(s, i, DigitRunEnd(s, i) - 1))

\* (\d+(?:,\d+)?(?:\.\d+)?)\s*kg
ConsEnd(s, i) ==
    LET a == DigitRunEnd(s, i)
        b == IF a + 1 <= Len(s) /\ s[a] = "," /\ IsDigit(s[a + 1])
             THEN DigitRunEnd(s, a + 1) ELSE a
        c == IF b + 1 <= Len(s) /\ s[b] = "." /\ IsDigit(s[b + 1])
             THEN DigitRunEnd(s, b + 1) ELSE b
    IN c
ConsOk(s, i) ==
    /\ IsDigit(s[i])
    /\ KgAt(s, SpaceRunEnd(s, ConsEnd(s, i)))
RECURSIVE ConsStart(_, _)
ConsStart(s, i) ==
    IF i > Len(s) THEN 0 ELSE IF ConsOk(s, i) THEN i ELSE ConsStart(s, i + 1)
ConsSearch(s) ==
    LET i == ConsStart(s, 1)
    IN IF i = 0 THEN Null ELSE Some(SubSeq(s, i, ConsEnd(s, i) - 1))

\* (\w+)\s+or\s+(\w+) has a match
OrPattern(s) ==
    \E i \in 1..Len(s) :
        /\ IsWord(s[i])
        /\ i + 1 <= Len(s) /\ IsSpace(s[i + 1])
        /\ LET a == SpaceRunEnd(s, i + 1)
           IN /\ MatchAt(<<"o", "r">>, s, a)
              /\ a + 2 <= Len(s) /\ IsSpace(s[a + 2])
              /\ LET b == SpaceRunEnd(s, a + 2)
                 IN b <= Len(s) /\ IsWord(s[b])

\* (\w+)/(\w+) has a match
SlashPattern(s) ==
    \E i \in 1..(Len(s) - 2) : IsWord(s[i]) /\ s[i + 1] = "/" /\ IsWord(s[i + 2])

\* ------------------------------------------------------------------------
\* load_port_reference
\* ------------------------------------------------------------------------
\* the abbreviations table: <<substring of a normalized name, its aliases>>
abbreviations == <<
    <<<<"h", "o", "n", "g", " ", "k", "o", "n", "g">>, {<<"h", "k">>, <<"h", "k", "g">>}>>,
    <<<<"s", "h", "a", "n", "g", "h", "a", "i">>, {<<"s", "h", "a">>}>>,
    <<<<"s", "i", "n", "g", "a", "p", "o", "r", "e">>, {<<"s", "i", "n">>, <<"s", "g">>}>>,
    <<<<"s", "u", "r", "a", "b", "a", "y", "a">>, {<<"s", "u", "b">>}>>,
    <<<<"h", "o", " ", "c", "h", "i", " ", "m", "i", "n", "h">>, {<<"h", "c", "m">>, <<"s", "g", "n">>}>>,
    <<<<"c", "a", "p", "e", " ", "t", "o", "w", "n">>, {<<"c", "p", "t">>}>>,
    <<<<"h", "o", "u", "s", "t", "o", "n">>, {<<"h", "o", "u">>}>>,
    <<<<"m", "a", "n", "i", "l", "a">>, {<<"m", "n", "l">>}>>,
    <<<<"b", "u", "s", "a", "n">>, {<<"p", "u", "s">>}>>,
    <<<<"j", "e", "b", "e", "l", " ", "a", "l", "i">>, {<<"j", "b", "l">>, <<"d", "x", "b">>}>>,
    <<<<"k", "e", "e", "l", "u", "n", "g">>, {<<"k", "e", "l">>}>>,
    <<<<"y", "o", "k", "o", "h", "a", "m", "a">>, {<<"y", "o", "k">>}>>,
    <<<<"h", "a", "m", "b", "u", "r", "g">>, {<<"h", "a", "m">>}>>,
    <<<<"c", "h", "e", "n", "n", "a", "i">>, {<<"m", "a", "a">>, <<"m", "a", "d", "r", "a", "s">>}>>,
    <<<<"b", "a", "n", "g", "a", "l", "o", "r", "e">>, {<<"b", "l", "r">>}>>,
    <<<<"h", "y", "d", "e", "r", "a", "b", "a", "d">>, {<<"h", "y", "d">>}>>,
    <<<<"g", "u", "a", "n", "g", "z", "h", "o", "u">>, {<<"c", "a", "n">>, <<"g", "z", "g">>}>>,
    <<<<"s", "h", "e", "n", "z", "h", "e", "n">>, {<<"s", "z", "x">>, <<"s", "z", "n">>}>>,
    <<<<"x", "i", "n", "g", "a", "n", "g">>, {<<"t", "x", "g">>}>>,
    <<<<"t", "i", "a", "n", "j", "i", "n">>, {<<"t", "s", "n">>}>>,
    <<<<"q", "i", "n", "g", "d", "a", "o">>, {<<"t", "a", "o">>}>>,
    <<<<"o", "s", "a", "k", "a">>, {<<"o", "s", "a">>}>>,
    <<<<"g", "e", "n", "o", "a">>, {<<"g", "o", "a">>}>>,
    <<<<"i", "z", "m", "i", "r">>, {<<"i", "z", "m">>}>>,
    <<<<"a", "m", "b", "a", "r", "l", "i">>, {<<"a", "m", "r">>}>>,
    <<<<"l", "a", "e", "m", " ", "c", "h", "a", "b", "a", "n", "g">>, {<<"l", "c", "h">>}>>,
    <<<<"b", "a", "n", "g", "k", "o", "k">>, {<<"b", "k", "k">>}>>,
    <<<<"n", "h", "a", "v", "a", " ", "s", "h", "e", "v", "a">>, {<<"n", "s", "v", "a">>, <<"n", "s", "h">>}>>,
    <<<<"m", "u", "n", "d", "r", "a">>, {<<"m", "u", "n">>}>>,
    <<<<"c", "o", "l", "o", "m", "b", "o">>, {<<"c", "m", "b">>}>>,
    <<<<"p", "o", "r", "t", " ", "k", "l", "a", "n", "g">>, {<<"p", "k", "g">>, <<"k", "l", "g">>}>>,
    <<<<"j", "e", "d", "d", "a", "h">>, {<<"j", "e", "d">>}>>,
    <<<<"d", "a", "m", "m", "a", "m">>, {<<"d", "a", "m">>}>>,
    <<<<"r", "i", "y", "a", "d", "h">>, {<<"r", "u", "h">>}>>
>>

\* the three lookup dictionaries before the first record
EmptyIndex == [code_to_name |-> <<>>, name_to_code |-> <<>>, code_to_all_names |-> <<>>]

\* variant: the longer name wins, combined or not
CanonicalLongest(current_name, name) ==
    IF Len(name) > Len(current_name) THEN name ELSE current_name

\* the canonical name of a code after one more record with this name
CanonicalAfter(current_name, name) ==
    IF Contains(<<"/">>, name) /\ ~Contains(<<"/">>, current_name) THEN name
    ELSE IF ~Contains(<<"/">>, name) /\ Contains(<<"/">>, current_name) THEN current_name
    ELSE IF Len(name) > Len(current_name) THEN name
    ELSE current_name

\* variant: a name already on record for the code is not appended again
LoadPortOnce(idx, port) ==
    LET code == port.code
        name == port.name
        all == idx.code_to_all_names
        allNames == IF code \in DOMAIN all
                   THEN IF InSeq(all[code], name) THEN all[code] ELSE Append(all[code], name)
                   ELSE <<name>>
        canon == IF code \in DOMAIN idx.code_to_name
                 THEN CanonicalAfter(idx.code_to_name[code], name)
                 ELSE name
        normalized_name == Strip(Lower(name))
        aliases == UNION {abbreviations[i][2] : i \in {k \in 1..Len(abbreviations) :
                              Contains(abbreviations[k][1], normalized_name)}}
        keys == {normalized_name} \cup aliases
    IN [code_to_name |-> Put(idx.code_to_name, code, canon),
        name_to_code |-> [x \in (DOMAIN idx.name_to_code) \cup keys |->
                              IF x \in keys THEN code ELSE idx.name_to_code[x]],
        code_to_all_names |-> Put(all, code, allNames)]

\* one iteration of the loop over the reference records
LoadPort(idx, port) ==
    LET code == port.code
        name == port.name
        all == idx.code_to_all_names
        allNames == IF code \in DOMAIN all THEN Append(all[code], name) ELSE <<name>>
        canon == IF code \in DOMAIN idx.code_to_name
                 THEN CanonicalAfter(idx.code_to_name[code], name)
                 ELSE name
        normalized_name == Strip(Lower(name))
        aliases == UNION {abbreviations[i][2] : i \in {k \in 1..Len(abbreviations) :
                              Contains(abbreviations[k][1], normalized_name)}}
        keys == {normalized_name} \cup aliases
    IN [code_to_name |-> Put(idx.code_to_name, code, canon),
        name_to_code |-> [x \in (DOMAIN idx.name_to_code) \cup keys |->
                              IF x \in keys THEN code ELSE idx.name_to_code[x]],
        code_to_all_names |-> Put(all, code, allNames)]

\* the index after the first n records of ports
RECURSIVE LoadPrefix(_, _)
LoadPrefix(ports, n) ==
    IF n = 0 THEN EmptyIndex ELSE LoadPort(LoadPrefix(ports, n - 1), ports[n])

load_port_reference(ports) == LoadPrefix(ports, Len(ports))

\* ------------------------------------------------------------------------
\* Pattern extractors
\* ------------------------------------------------------------------------
\* the two arrow tokens as the source file spells them
ArrowGlyph == <<"U201A", "U00DC", "U00ED">>
ArrowAscii == <<"-", ">">>

is_consolidated_inquiry(body) ==
    /\ Contains(<<";">>, body)
    /\ (Contains(ArrowGlyph, body) \/ Contains(ArrowAscii, body))

\* abbrev_map in its order
abbrev_map == << <<<<"M", "A", "A">>, <<"C", "h", "e", "n", "n", "a", "i">>>>, <<<<"B", "L", "R">>, <<"B", "a", "n", "g", "a", "l", "o", "r", "e">>>>, <<<<"H", "Y", "D">>, <<"H", "y", "d", "e", "r", "a", "b", "a", "d">>>> >>

\* the city a route contributes: <<city>> or <<>>
RouteCity(route) ==
    LET arrow == IF Contains(ArrowGlyph, route) THEN ArrowGlyph
                 ELSE IF Contains(ArrowAscii, route) THEN ArrowAscii
                 ELSE <<>>
    IN IF arrow = <<>> THEN <<>>
       ELSE LET dest_part == Upper(Strip(Split(route, arrow)[2]))
                hits == {k \in 1..Len(abbrev_map) : Contains(abbrev_map[k][1], dest_part)}
            IN IF hits = {} THEN <<>>
               ELSE <<abbrev_map[CHOOSE k \in hits : \A m \in hits : k <= m][2]>>

RECURSIVE RouteCities(_)
RouteCities(routes) ==
    IF Len(routes) = 0 THEN <<>>
    ELSE RouteCity(Head(routes)) \o RouteCities(Tail(routes))

get_consolidated_dest_order(body) == RouteCities(Split(body, <<";">>))

extract_weight_from_consolidated(body) ==
    LET m == ConsSearch(Lower(body))
    IN IF m = Null THEN Null ELSE Some(ParseRound2(StripCommas(Val(m))))

\* ------------------------------------------------------------------------
\* get_best_port_name
\* ------------------------------------------------------------------------
IsCombined(n) == Contains(<<" ", "/", " ">>, n)

\* city_keywords in its order
city_keywords == <<
    <<<<"c", "h", "e", "n", "n", "a", "i">>, <<"C", "h", "e", "n", "n", "a", "i", " ", "I", "C", "D">>>>,
    <<<<"b", "a", "n", "g", "a", "l", "o", "r", "e">>, <<"B", "a", "n", "g", "a", "l", "o", "r", "e", " ", "I", "C", "D">>>>,
    <<<<"b", "l", "r">>, <<"B", "a", "n", "g", "a", "l", "o", "r", "e", " ", "I", "C", "D">>>>,
    <<<<"h", "y", "d", "e", "r", "a", "b", "a", "d">>, <<"H", "y", "d", "e", "r", "a", "b", "a", "d", " ", "I", "C", "D">>>>,
    <<<<"h", "y", "d">>, <<"H", "y", "d", "e", "r", "a", "b", "a", "d", " ", "I", "C", "D">>>>,
    <<<<"m", "u", "n", "d", "r", "a">>, <<"M", "u", "n", "d", "r", "a", " ", "I", "C", "D">>>>,
    <<<<"b", "a", "n", "g", "k", "o", "k">>, <<"B", "a", "n", "g", "k", "o", "k", " ", "I", "C", "D">>>>,
    <<<<"w", "h", "i", "t", "e", "f", "i", "e", "l", "d">>, <<"I", "C", "D", " ", "W", "h", "i", "t", "e", "f", "i", "e", "l", "d">>>>
>>

\* variant: the label is returned without looking it up in all_names
RECURSIVE CityScanNoCheck(_, _, _)
CityScanNoCheck(k, body_lower, all_names) ==
    IF k > Len(city_keywords) THEN Null
    ELSE IF Contains(city_keywords[k][1], body_lower) /\ Contains(<<"i", "c", "d">>, body_lower)
    THEN Some(city_keywords[k][2])
    ELSE CityScanNoCheck(k + 1, body_lower, all_names)

\* the loop over city_keywords from entry k on: Some(name) at the first return
RECURSIVE CityScan(_, _, _)
CityScan(k, body_lower, all_names) ==
    IF k > Len(city_keywords) THEN Null
    ELSE LET keyword == city_keywords[k][1]
             icd_name == city_keywords[k][2]
             reverse_name == <<"I", "C", "D", " ">> \o Replace(icd_name, <<" ", "I", "C", "D">>, <<>>)
         IN IF Contains(keyword, body_lower) /\ Contains(<<"i", "c", "d">>, body_lower)
            THEN IF InSeq(all_names, icd_name) THEN Some(icd_name)
                 ELSE IF InSeq(all_names, reverse_name) THEN Some(reverse_name)
                 ELSE CityScan(k + 1, body_lower, all_names)
            ELSE CityScan(k + 1, body_lower, all_names)

\* variant: the last of the shortest
ShortestLast(names) ==
    names[CHOOSE i \in 1..Len(names) :
              /\ \A k \in 1..Len(names) : Len(names[i]) <= Len(names[k])
              /\ \A k \in (i + 1)..Len(names) : Len(names[k]) > Len(names[i])]

\* min(names, key=len): the first of the shortest
ShortestFirst(names) ==
    names[CHOOSE i \in 1..Len(names) :
              /\ \A k \in 1..Len(names) : Len(names[i]) <= Len(names[k])
              /\ \A k \in 1..(i - 1) : Len(names[k]) > Len(names[i])]

\* variant: the first combined name is returned without looking for the exact one
ConsolidatedNameAnyCombined(email_body, all_names) ==
    LET dest_order == get_consolidated_dest_order(email_body)
        combined_names == SelectSeq(all_names, IsCombined)
    IN IF Len(dest_order) >= 2 /\ Len(combined_names) > 0
       THEN Some(combined_names[1])
       ELSE Null

\* rule 1: consolidated destination
ConsolidatedName(email_body, all_names) ==
    LET dest_order == get_consolidated_dest_order(email_body)
        expected_pattern == Join(<<" ", "/", " ">>, [i \in 1..Len(dest_order) |-> dest_order[i] \o <<" ", "I", "C", "D">>])
        combined_names == SelectSeq(all_names, IsCombined)
    IN IF Len(dest_order) >= 2
       THEN IF InSeq(all_names, expected_pattern) THEN Some(expected_pattern)
            ELSE IF Len(combined_names) > 0 THEN Some(combined_names[1])
            ELSE Null
       ELSE Null

\* variant: only the "/" pattern is looked for
OriginNameSlashOnly(body_lower, all_names) ==
    LET combined_names == SelectSeq(all_names, IsCombined)
    IN IF SlashPattern(body_lower) /\ Len(combined_names) > 0
       THEN Some(combined_names[1])
       ELSE Null

\* rule 2: origin with an "or" or a "/" pattern
OriginName(body_lower, all_names) ==
    LET combined_names == SelectSeq(all_names, IsCombined)
    IN IF (OrPattern(body_lower) \/ SlashPattern(body_lower)) /\ Len(combined_names) > 0
       THEN Some(combined_names[1])
       ELSE Null

\* rule 3: "to India"
IndiaName(body_lower, all_names) ==
    LET india_chennai == SelectSeq(all_names, LAMBDA n : Contains(<<"i", "n", "d", "i", "a">>, Lower(n)))
    IN IF /\ Contains(<<" ", "t", "o", " ", "i", "n", "d", "i", "a">>, body_lower)
          /\ ~Contains(<<"i", "c", "d">>, body_lower)
          /\ ~Contains(<<"p", "p", "g">>, body_lower)
          /\ Len(india_chennai) > 0
       THEN Some(india_chennai[1])
       ELSE Null

\* variant: the fallback takes the first simple ICD name, Chennai or not
IcdNameFirstSimple(body_lower, all_names) ==
    LET scan == CityScan(1, body_lower, all_names)
        simple_icd == SelectSeq(all_names, LAMBDA n : Contains(<<"i", "c", "d">>, Lower(n)) /\ ~IsCombined(n))
    IN IF scan # Null THEN scan
       ELSE IF Len(simple_icd) > 0 THEN Some(simple_icd[1])
       ELSE Null

\* rule 4: "City ICD" or "PPG"
IcdName(body_lower, all_names) ==
    LET scan == CityScan(1, body_lower, all_names)
        simple_icd == SelectSeq(all_names, LAMBDA n : Contains(<<"i", "c", "d">>, Lower(n)) /\ ~IsCombined(n))
        chennai_icd == SelectSeq(simple_icd, LAMBDA n : Contains(<<"c", "h", "e", "n", "n", "a", "i">>, Lower(n)))
    IN IF scan # Null THEN scan
       ELSE IF Len(simple_icd) > 0
       THEN IF Len(chennai_icd) > 0 THEN Some(chennai_icd[1]) ELSE Some(simple_icd[1])
       ELSE Null

\* rule 5: the default
DefaultName(all_names) ==
    LET simple_names == SelectSeq(all_names, LAMBDA n : ~IsCombined(n))
    IN IF Len(simple_names) > 0 THEN ShortestFirst(simple_names) ELSE all_names[1]

\* port_code is an optional string; the result is an optional string
get_best_port_name(port_code, email_body, code_to_all_names, is_destination) ==
    IF ~TruthyStr(port_code) \/ Val(port_code) \notin DOMAIN code_to_all_names THEN Null
    ELSE LET all_names == code_to_all_names[Val(port_code)]
             body_lower == Lower(email_body)
             r1 == IF is_consolidated_inquiry(email_body) /\ is_destination
                   THEN ConsolidatedName(email_body, all_names) ELSE Null
             r2 == IF ~is_destination THEN OriginName(body_lower, all_names) ELSE Null
             r3 == IF is_destination /\ Val(port_code) = <<"I", "N", "M", "A", "A">>
                   THEN IndiaName(body_lower, all_names) ELSE Null
             r4 == IF is_destination /\ (Contains(<<"i", "c", "d">>, body_lower) \/ Contains(<<"p", "p", "g">>, body_lower))
                   THEN IcdName(body_lower, all_names) ELSE Null
         IN IF r1 # Null THEN r1
            ELSE IF r2 # Null THEN r2
            ELSE IF r3 # Null THEN r3
            ELSE IF r4 # Null THEN r4
            ELSE Some(DefaultName(all_names))

\* ------------------------------------------------------------------------
\* post_process_extraction
\* ------------------------------------------------------------------------
IMPORT_LCL == "pl_sea_import_lcl"
EXPORT_LCL == "pl_sea_export_lcl"

\* variant: the origin code is looked at first
ProductLineOriginFirst(d) ==
    LET dest_code == Get(d, "destination_port_code")
        origin_code == Get(d, "origin_port_code")
    IN IF TruthyStr(origin_code) /\ StartsWith(Val(origin_code), <<"I", "N">>)
       THEN Put(d, "product_line", Some(EXPORT_LCL))
       ELSE Put(d, "product_line", Some(IMPORT_LCL))

\* variant: no default branch
ProductLineNoDefault(d) ==
    LET dest_code == Get(d, "destination_port_code")
        origin_code == Get(d, "origin_port_code")
    IN IF TruthyStr(dest_code) /\ StartsWith(Val(dest_code), <<"I", "N">>)
       THEN Put(d, "product_line", Some(IMPORT_LCL))
       ELSE IF TruthyStr(origin_code) /\ StartsWith(Val(origin_code), <<"I", "N">>)
       THEN Put(d, "product_line", Some(EXPORT_LCL))
       ELSE d

\* 1. product_line from the port codes
ProductLine(d) ==
    LET dest_code == Get(d, "destination_port_code")
        origin_code == Get(d, "origin_port_code")
    IN IF TruthyStr(dest_code) /\ StartsWith(Val(dest_code), <<"I", "N">>)
       THEN Put(d, "product_line", Some(IMPORT_LCL))
       ELSE IF TruthyStr(origin_code) /\ StartsWith(Val(origin_code), <<"I", "N">>)
       THEN Put(d, "product_line", Some(EXPORT_LCL))
       ELSE Put(d, "product_line", Some(IMPORT_LCL))

\* 2. one numeric field rounded when it is not None
RoundField(d, k) ==
    IF Get(d, k) # Null THEN Put(d, k, Some(Round2(Val(d[k])))) ELSE d

RoundFields(d) == RoundField(RoundField(d, "cargo_weight_kg"), "cargo_cbm")

\* variant: the RT value is stored whatever cargo_cbm holds
RtOverrideAlways(d, body_lower) ==
    LET rt_match == RtSearch(body_lower)
    IN IF rt_match # Null
       THEN Put(d, "cargo_cbm", Some(ParseRound2(Val(rt_match))))
       ELSE d

\* 3. RT units: cargo_cbm from the RT value when cargo_cbm is falsy
RtOverride(d, body_lower) ==
    LET rt_match == RtSearch(body_lower)
    IN IF rt_match # Null /\ ~TruthyNum(Get(d, "cargo_cbm"))
       THEN Put(d, "cargo_cbm", Some(ParseRound2(Val(rt_match))))
       ELSE d

\* 4. consolidated inquiry: weight from any route when the weight is falsy
ConsolidatedWeight(d, body) ==
    IF is_consolidated_inquiry(body) /\ ~TruthyNum(Get(d, "cargo_weight_kg"))
    THEN LET weight == extract_weight_from_consolidated(body)
         IN IF TruthyNum(weight) THEN Put(d, "cargo_weight_kg", weight) ELSE d
    ELSE d

\* variant: the comma-separated weight only fills a missing weight
CommaWeightIfUnset(d, body_lower) ==
    LET comma_weight_match == CommaSearch(body_lower)
    IN IF comma_weight_match # Null /\ Get(d, "cargo_weight_kg") = Null
       THEN Put(d, "cargo_weight_kg", Some(Round2(ParseInt(StripCommas(Val(comma_weight_match))))))
       ELSE d

\* variant: the small-weight check stores a difference instead of the parsed weight
CommaWeightSubtract(d, body_lower) ==
    LET comma_weight_match == CommaSearch(body_lower)
        weight_match == PlainSearch(body_lower)
    IN IF comma_weight_match # Null
       THEN Put(d, "cargo_weight_kg", Some(Round2(ParseInt(StripCommas(Val(comma_weight_match))))))
       ELSE IF Get(d, "cargo_weight_kg") # Null /\ Val(d["cargo_weight_kg"]) < 10 * 1000
               /\ weight_match # Null
               /\ ParseInt(Val(weight_match)) > Val(d["cargo_weight_kg"]) * 100
       THEN Put(d, "cargo_weight_kg", Some(Round2(Val(d["cargo_weight_kg"]) - ParseInt(Val(weight_match)))))
       ELSE d

\* 5. comma-separated weight, else the small-weight check
CommaWeight(d, body_lower) ==
    LET comma_weight_match == CommaSearch(body_lower)
        weight_match == PlainSearch(body_lower)
    IN IF comma_weight_match # Null
       THEN Put(d, "cargo_weight_kg", Some(Round2(ParseInt(StripCommas(Val(comma_weight_match))))))
       ELSE IF Get(d, "cargo_weight_kg") # Null
       THEN LET weight == Val(d["cargo_weight_kg"])
            IN IF weight < 10 * 1000 /\ weight_match # Null
               THEN LET parsed_weight == ParseInt(Val(weight_match))
                    IN IF parsed_weight > weight * 100
                       THEN Put(d, "cargo_weight_kg", Some(Round2(parsed_weight)))
                       ELSE d
               ELSE d
       ELSE d

\* variant: the name of a record without a code is left as it came
PortNameNoReset(d, codeKey, nameKey, body, code_to_all_names, is_destination) ==
    LET code == Get(d, codeKey)
        best_name == get_best_port_name(code, body, code_to_all_names, is_destination)
    IN IF TruthyStr(code) /\ DOMAIN code_to_all_names # {} /\ TruthyStr(best_name)
       THEN Put(d, nameKey, best_name)
       ELSE d

\* variant: the resolved name is stored under the code's key
PortNameWrongKey(d, codeKey, nameKey, body, code_to_all_names, is_destination) ==
    LET code == Get(d, codeKey)
        best_name == get_best_port_name(code, body, code_to_all_names, is_destination)
    IN IF TruthyStr(code) /\ DOMAIN code_to_all_names # {}
       THEN IF TruthyStr(best_name) THEN Put(d, codeKey, best_name) ELSE d
       ELSE IF ~TruthyStr(code) THEN Put(d, nameKey, Null)
       ELSE d

\* 6. one port name from its code
PortName(d, codeKey, nameKey, body, code_to_all_names, is_destination) ==
    LET code == Get(d, codeKey)
    IN IF TruthyStr(code) /\ DOMAIN code_to_all_names # {}
       THEN IF Val(code) \in DOMAIN code_to_all_names
            THEN LET best_name == get_best_port_name(code, body, code_to_all_names, is_destination)
                 IN IF TruthyStr(best_name) THEN Put(d, nameKey, best_name) ELSE d
            ELSE d
       ELSE IF ~TruthyStr(code) THEN Put(d, nameKey, Null)
       ELSE d

PortNames(d, body, code_to_all_names) ==
    PortName(PortName(d, "origin_port_code", "origin_port_name", body, code_to_all_names, FALSE),
             "destination_port_code", "destination_port_name", body, code_to_all_names, TRUE)

\* email_data.get("body", "")
BodyOf(email_data) == IF "body" \in DOMAIN email_data THEN email_data.body ELSE <<>>

\* the returned record; code_to_name and name_to_code are passed and never read
post_process_extraction(extracted, email_data, c2n, n2c, code_to_all_names) ==
    LET body == BodyOf(email_data)
        body_lower == Lower(body)
        s1 == ProductLine(extracted)
        s2 == RoundFields(s1)
        s3 == RtOverride(s2, body_lower)
        s4 == ConsolidatedWeight(s3, body)
        s5 == CommaWeight(s4, body_lower)
    IN PortNames(s5, body, code_to_all_names)

\* ------------------------------------------------------------------------
\* ShipmentExtraction (schemas.py)
\* ------------------------------------------------------------------------
Fields == {"id", "product_line", "origin_port_code", "origin_port_name",
           "destination_port_code", "destination_port_name", "incoterm",
           "cargo_weight_kg", "cargo_cbm", "is_dangerous"}

\* a field with a default may be missing, a field of type str or bool may not be None
Validates(d) ==
    /\ Get(d, "id") # Null
    /\ Get(d, "product_line") # Null
    /\ ("incoterm" \in DOMAIN d => d["incoterm"] # Null)
    /\ ("is_dangerous" \in DOMAIN d => d["is_dangerous"] # Null)
    /\ (Get(d, "cargo_weight_kg") # Null => Val(d["cargo_weight_kg"]) >= 0)
    /\ (Get(d, "cargo_cbm") # Null => Val(d["cargo_cbm"]) >= 0)

\* model_dump(): every field, a missing one at its default
ModelDump(d) ==
    [k \in Fields |->
        IF k \in DOMAIN d THEN d[k]
        ELSE IF k = "incoterm" THEN Some("FOB")
        ELSE IF k = "is_dangerous" THEN Some(FALSE)
        ELSE Null]

\* ------------------------------------------------------------------------
\* Inputs
\* ------------------------------------------------------------------------
\* at most this many phrases in an email body
MaxFrags == 2
\* at most this many applications of post_process_extraction to one record
MaxPasses == 2
\* at most this many records in a port reference file
MaxPorts == 3

\* phrases of freight emails: every pattern the corrector searches for occurs
Frags == {
    <<"3", ",", "2", "0", "0", " ", "K", "G", "S", " ">>,
    <<"A", "-", ">", "M", "A", "A", " ", "1", ".", "0", " ", "k", "g", ";">>,
    <<"B", "-", ">", "B", "L", "R", " ", "i", "c", "d", ";">>,
    <<"2", ".", "4", " ", "R", "T", " ">>,
    <<"8", "5", "0", "k", "g", " ">>,
    <<" ", "t", "o", " ", "i", "n", "d", "i", "a", " ">>,
    <<"x", " ", "o", "r", " ", "y", " ">>,
    <<"a", "/", "b", " ">>,
    <<"1">>
}

RECURSIVE BodiesOf(_)
BodiesOf(n) ==
    IF n = 0 THEN {<<>>}
    ELSE BodiesOf(n - 1) \cup {b \o f : b \in BodiesOf(n - 1), f \in Frags}
Bodies == BodiesOf(MaxFrags)

\* the reference file of the correction runs
RefPorts == <<
    [code |-> <<"I", "N", "M", "A", "A">>, name |-> <<"C", "h", "e", "n", "n", "a", "i">>],
    [code |-> <<"I", "N", "M", "A", "A">>, name |-> <<"C", "h", "e", "n", "n", "a", "i", " ", "I", "C", "D">>],
    [code |-> <<"I", "N", "M", "A", "A">>, name |-> <<"B", "a", "n", "g", "a", "l", "o", "r", "e", " ", "I", "C", "D">>],
    [code |-> <<"I", "N", "M", "A", "A">>, name |-> <<"C", "h", "e", "n", "n", "a", "i", " ", "I", "C", "D", " ", "/", " ", "B", "a", "n", "g", "a", "l", "o", "r", "e", " ", "I", "C", "D">>],
    [code |-> <<"I", "N", "M", "A", "A">>, name |-> <<"I", "n", "d", "i", "a", " ", "(", "C", "h", "e", "n", "n", "a", "i", ")">>],
    [code |-> <<"D", "E", "H", "A", "M">>, name |-> <<"H", "a", "m", "b", "u", "r", "g">>],
    [code |-> <<"C", "N", "S", "Z", "X">>, name |-> <<"S", "h", "e", "n", "z", "h", "e", "n">>],
    [code |-> <<"C", "N", "S", "Z", "X">>, name |-> <<"S", "h", "e", "n", "z", "h", "e", "n", " ", "/", " ", "G", "u", "a", "n", "g", "z", "h", "o", "u">>]
>>
RefIndex == load_port_reference(RefPorts)

\* records of the reference files of the loading runs
PortCodes == {<<"I", "N", "M", "A", "A">>, <<"D", "E", "H", "A", "M">>}
PortNamesIn == {<<"G", "o", "a">>, <<"C", "h", "e", "n", "n", "a", "i">>, <<"A", "/", "B">>, <<"C", "h", "e", "n", "n", "a", "i", " ", "/", " ", "B", "a", "n", "g", "a", "l", "o", "r", "e">>, <<" ", "H", "K", " ">>}
PortRecords == [code : PortCodes, name : PortNamesIn]

RECURSIVE FilesOf(_)
FilesOf(n) ==
    IF n = 0 THEN {<<>>}
    ELSE FilesOf(n - 1) \cup {Append(f, r) : f \in {g \in FilesOf(n - 1) : Len(g) = n - 1}, r \in PortRecords}
PortFiles == FilesOf(MaxPorts)

\* a raw record as the language model may return it
Raw(oc, on, dc, dn, w, c, pl) ==
    [id |-> Some("e1"), product_line |-> pl,
     origin_port_code |-> oc, origin_port_name |-> on,
     destination_port_code |-> dc, destination_port_name |-> dn,
     incoterm |-> Some("FOB"), cargo_weight_kg |-> w, cargo_cbm |-> c,
     is_dangerous |-> Some(FALSE)]

\* the record call_llm_and_parse returns after its last failed attempt
Fallback(email_id) ==
    [id |-> Some(email_id), product_line |-> Null,
     origin_port_code |-> Null, origin_port_name |-> Null,
     destination_port_code |-> Null, destination_port_name |-> Null,
     incoterm |-> Some("FOB"), cargo_weight_kg |-> Null, cargo_cbm |-> Null,
     is_dangerous |-> Some(FALSE)]

SZX == Some(<<"C", "N", "S", "Z", "X">>)
MAA == Some(<<"I", "N", "M", "A", "A">>)
HAM == Some(<<"D", "E", "H", "A", "M">>)
UnknownCode == Some(<<"X", "X", "X", "X", "X">>)
Foo == Some(<<"F", "o", "o">>)

\* weights and volumes in thousandths: absent, zero, below a hundredth,
\* small, just under 10, ordinary, negative
WeightsIn == {Null, Some(0), Some(4), Some(5000), Some(9990), Some(32000), Some(-1000)}
CbmsIn == {Null, Some(0), Some(4), Some(2500), Some(-3000)}

Candidates ==
    {Raw(SZX, Null, MAA, Null, w, Null, Null) : w \in WeightsIn}
    \cup {Raw(SZX, Null, MAA, Null, Null, c, Null) : c \in CbmsIn}
    \cup {Raw(oc, Foo, dc, Foo, Some(850000), Some(1500), Some("x")) :
             oc \in {Null, Some(<<>>), SZX, MAA, UnknownCode},
             dc \in {Null, MAA, HAM, UnknownCode}}
    \cup {Raw(UnknownCode, Null, UnknownCode, Null, Null, Null, Null)}
    \cup {[id |-> Some("e1")],
          [id |-> Some("e1"), origin_port_name |-> Foo, destination_port_code |-> MAA,
           cargo_weight_kg |-> Some(5000)],
          [Raw(SZX, Null, MAA, Null, Null, Null, Null) EXCEPT !.incoterm = Null],
          Fallback("e1")}

\* ------------------------------------------------------------------------
\* State
\* ------------------------------------------------------------------------
VARIABLES
    ports,              \* the records of the reference file
    loaded,             \* how many of them load_port_reference has processed
    code_to_name,       \* code -> canonical name
    name_to_code,       \* normalized name or alias -> code
    code_to_all_names,  \* code -> names in file order
    email,              \* the email being processed
    pc,                 \* where the run is: "load", "email", "raw", "processed",
                        \* "validated"; the name of the function that returned;
                        \* "parallel"; "attempt", "exhausted", "returned"
    candidate,          \* what call_llm_and_parse returned
    extracted,          \* the working record
    prev,               \* the working record before the last correction
    passes,             \* corrections applied to the working record
    valid,              \* "": not validated, else "ok" or "ValidationError"
    call_code,          \* the port_code argument of a get_best_port_name call
    call_dest,          \* its is_destination argument
    result,             \* what the called function returned
    attempt,            \* the loop variable of call_llm_and_parse
    slept,              \* the arguments of its time.sleep calls, in order
    responses,          \* what its calls of the language model gave, in order
    tasks,              \* the correction calls running in parallel
    emails,             \* the ids of emails_input.json, in file order
    output_json,        \* output.json: no file, a results list, or a cut file
    results,            \* the results list of the run of main
    processed_ids,      \* the ids main found in output.json when it started
    loop_i,             \* the loop variable i of main
    calls,              \* id -> how often extract_single_email was called
    runs                \* how many runs of main were started

vars == <<ports, loaded, code_to_name, name_to_code, code_to_all_names,
          email, pc, candidate, extracted, prev, passes, valid,
          call_code, call_dest, result, attempt, slept, responses, tasks,
          emails, output_json, results, processed_ids, loop_i, calls, runs>>
mainVars == <<emails, output_json, results, processed_ids, loop_i, calls, runs>>
callVars == <<call_code, call_dest, result>>
retryVars == <<attempt, slept, responses>>
indexVars == <<ports, loaded, code_to_name, name_to_code, code_to_all_names>>
emailVars == <<email, candidate, extracted, prev, passes, valid>>

EmptyDict == [x \in {} |-> Null]

\* main is not running and there are no input and no output file
NoRun ==
    /\ emails = <<>>
    /\ output_json = Null
    /\ results = <<>>
    /\ processed_ids = {}
    /\ loop_i = 0
    /\ calls = <<>>
    /\ runs = 0

\* no function call, no retry loop and no parallel correction is under way
Idle ==
    /\ call_code = Null
    /\ call_dest = FALSE
    /\ result = Null
    /\ attempt = 0
    /\ slept = <<>>
    /\ responses = <<>>
    /\ tasks = <<>>
    /\ NoRun

\* ------------------------------------------------------------------------
\* Loading the reference file, one record a step
\* ------------------------------------------------------------------------
InitIndex ==
    /\ ports \in PortFiles
    /\ loaded = 0
    /\ code_to_name = EmptyIndex.code_to_name
    /\ name_to_code = EmptyIndex.name_to_code
    /\ code_to_all_names = EmptyIndex.code_to_all_names
    /\ pc = "load"
    /\ email = [id |-> "e1", subject |-> <<>>, body |-> <<>>]
    /\ candidate = EmptyDict
    /\ extracted = EmptyDict
    /\ prev = EmptyDict
    /\ passes = 0
    /\ valid = ""
    /\ Idle

LoadNextPort ==
    /\ pc = "load"
    /\ loaded < Len(ports)
    /\ LET idx == LoadPort([code_to_name |-> code_to_name, name_to_code |-> name_to_code,
                            code_to_all_names |-> code_to_all_names], ports[loaded + 1])
       IN /\ code_to_name' = idx.code_to_name
          /\ name_to_code' = idx.name_to_code
          /\ code_to_all_names' = idx.code_to_all_names
    /\ loaded' = loaded + 1
    /\ UNCHANGED <<ports, pc>>
    /\ UNCHANGED emailVars
    /\ UNCHANGED <<callVars, retryVars, tasks, mainVars>>

LoadDone ==
    /\ pc = "load"
    /\ loaded = Len(ports)
    /\ pc' = "email"
    /\ UNCHANGED indexVars
    /\ UNCHANGED emailVars
    /\ UNCHANGED <<callVars, retryVars, tasks, mainVars>>

NextIndex == LoadNextPort \/ LoadDone
SpecIndex == InitIndex /\ [][NextIndex]_vars

\* ------------------------------------------------------------------------
\* Correcting one email against the loaded reference
\* ------------------------------------------------------------------------
Init ==
    /\ ports = RefPorts
    /\ loaded = Len(RefPorts)
    /\ code_to_name = RefIndex.code_to_name
    /\ name_to_code = RefIndex.name_to_code
    /\ code_to_all_names = RefIndex.code_to_all_names
    /\ pc = "email"
    /\ \E b \in Bodies : email = [id |-> "e1", subject |-> <<>>, body |-> b]
    /\ candidate = EmptyDict
    /\ extracted = EmptyDict
    /\ prev = EmptyDict
    /\ passes = 0
    /\ valid = ""
    /\ Idle

\* call_llm_and_parse returns: a parsed record with its id set, or the fallback
CallLlmAndParse ==
    /\ pc = "email"
    /\ \E c \in Candidates :
          /\ candidate' = Put(c, "id", Some(email.id))
          /\ extracted' = Put(c, "id", Some(email.id))
          /\ prev' = Put(c, "id", Some(email.id))
    /\ pc' = "raw"
    /\ UNCHANGED <<email, passes, valid>>
    /\ UNCHANGED indexVars
    /\ UNCHANGED <<callVars, retryVars, tasks, mainVars>>

\* post_process_extraction on the working record
PostProcess ==
    /\ pc \in {"raw", "processed"}
    /\ passes < MaxPasses
    /\ extracted' = post_process_extraction(extracted, email, code_to_name,
                                            name_to_code, code_to_all_names)
    /\ prev' = extracted
    /\ passes' = passes + 1
    /\ pc' = "processed"
    /\ UNCHANGED <<email, candidate, valid>>
    /\ UNCHANGED indexVars
    /\ UNCHANGED <<callVars, retryVars, tasks, mainVars>>

\* ShipmentExtraction(**extracted_data) and model_dump() of extract_single_email
Validate ==
    /\ pc = "processed"
    /\ passes = 1
    /\ IF Validates(extracted)
       THEN valid' = "ok" /\ extracted' = ModelDump(extracted)
       ELSE valid' = "ValidationError" /\ extracted' = extracted
    /\ pc' = "validated"
    /\ UNCHANGED <<email, candidate, prev, passes>>
    /\ UNCHANGED indexVars
    /\ UNCHANGED <<callVars, retryVars, tasks, mainVars>>

Next == CallLlmAndParse \/ PostProcess \/ Validate
Spec == Init /\ [][Next]_vars

\* ------------------------------------------------------------------------
\* Properties
\* ------------------------------------------------------------------------
Corrected == pc = "processed"
Once == pc = "processed" /\ passes = 1
Body == email.body
BodyLower == Lower(email.body)
HasFrag(f) == Contains(f, Body)

NonNegative(o) == o = Null \/ Val(o) >= 0

\* C1 as stated: for every candidate record, email and index, applying
\* post_process_extraction to its own output returns an equal record.
C1_IdempotentAnyCandidate ==
    (Corrected /\ passes >= 2) => extracted = prev

\* C1 amended: for every candidate whose cargo_weight_kg is null or not
\* negative, applying post_process_extraction to its own output (same email,
\* same index) returns a record equal field by field to the first output.
C1_Idempotent ==
    (Corrected /\ passes >= 2 /\ NonNegative(Get(candidate, "cargo_weight_kg")))
        => extracted = prev

\* C1 witness: a second application after a first one that replaced a small
\* weight by the body's weight and filled the volume from the RT value
C1_Witness ==
    /\ Corrected /\ passes = 2
    /\ Get(candidate, "cargo_weight_kg") = Some(5000)
    /\ Get(extracted, "cargo_weight_kg") = Some(850000)
    /\ Get(extracted, "cargo_cbm") = Some(2400)
    /\ extracted = prev

\* C2: in every record returned by post_process_extraction, a null origin
\* code comes with a null origin name and a null destination code with a null
\* destination name, whatever names the candidate carried.
C2_NameInvariant ==
    Corrected =>
        /\ (Get(extracted, "origin_port_code") = Null
               => Get(extracted, "origin_port_name") = Null)
        /\ (Get(extracted, "destination_port_code") = Null
               => Get(extracted, "destination_port_name") = Null)

\* C2 witness: a candidate with names and no codes has been corrected
C2_Witness ==
    /\ Corrected
    /\ Get(candidate, "origin_port_code") = Null
    /\ Get(candidate, "origin_port_name") = Foo
    /\ Get(candidate, "destination_port_code") = Null
    /\ Get(candidate, "destination_port_name") = Foo
    /\ Get(extracted, "origin_port_name") = Null
    /\ Get(extracted, "destination_port_name") = Null

\* a code that is present and not in the reference
Unknown(o) == TruthyStr(o) /\ Val(o) \notin DOMAIN code_to_all_names

\* C3: when the origin (destination) code is non-null and absent from the
\* reference, the resolver returns null and the corrected record's name for
\* that port is null, even if the candidate came with a name.
C3_UnknownCodeNullName ==
    Corrected =>
        /\ (Unknown(Get(extracted, "origin_port_code")) =>
               /\ get_best_port_name(Get(extracted, "origin_port_code"), Body,
                                     code_to_all_names, FALSE) = Null
               /\ Get(extracted, "origin_port_name") = Null)
        /\ (Unknown(Get(extracted, "destination_port_code")) =>
               /\ get_best_port_name(Get(extracted, "destination_port_code"), Body,
                                     code_to_all_names, TRUE) = Null
               /\ Get(extracted, "destination_port_name") = Null)

\* the names of the records for code c among the first n of the file
NamesSeen(c, n) == {ports[i].name : i \in {k \in 1..n : ports[k].code = c}}
HasSlash(n) == \E i \in 1..Len(n) : n[i] = "/"

\* C4: after load_port_reference has processed any sequence of records, the
\* canonical name of every code contains "/" whenever some record of the code
\* has a name containing "/", and no name of the code of the same kind
\* (combined or simple) is strictly longer; in any order of the records.
C4_CanonicalPreference ==
    \A i \in 1..loaded :
        LET c == ports[i].code
            canon == code_to_name[c]
        IN /\ c \in DOMAIN code_to_name
           /\ canon \in NamesSeen(c, loaded)
           /\ ((\E n \in NamesSeen(c, loaded) : HasSlash(n)) => HasSlash(canon))
           /\ \A n \in NamesSeen(c, loaded) :
                  HasSlash(n) = HasSlash(canon) => Len(n) <= Len(canon)

\* C4 witness: (C, "Chennai") then (C, "Chennai / Bangalore") loaded, and the
\* combined name is canonical
C4_Witness ==
    /\ loaded = 2
    /\ Len(ports) >= 2
    /\ ports[1] = [code |-> <<"I", "N", "M", "A", "A">>, name |-> <<"C", "h", "e", "n", "n", "a", "i">>]
    /\ ports[2] = [code |-> <<"I", "N", "M", "A", "A">>, name |-> <<"C", "h", "e", "n", "n", "a", "i", " ", "/", " ", "B", "a", "n", "g", "a", "l", "o", "r", "e">>]
    /\ code_to_name[<<"I", "N", "M", "A", "A">>] = <<"C", "h", "e", "n", "n", "a", "i", " ", "/", " ", "B", "a", "n", "g", "a", "l", "o", "r", "e">>

\* an optional code that begins with "IN"
IsIndian(o) == o # Null /\ Len(Val(o)) >= 2 /\ Val(o)[1] = "I" /\ Val(o)[2] = "N"

\* C5: after post_process_extraction, product_line is "pl_sea_import_lcl" if
\* the destination code starts with "IN", else "pl_sea_export_lcl" if the
\* origin code starts with "IN", else "pl_sea_import_lcl"; never null, never
\* the candidate's incoming value.
C5_ProductLine ==
    Corrected =>
        Get(extracted, "product_line") =
            IF IsIndian(Get(candidate, "destination_port_code")) THEN Some("pl_sea_import_lcl")
            ELSE IF IsIndian(Get(candidate, "origin_port_code")) THEN Some("pl_sea_export_lcl")
            ELSE Some("pl_sea_import_lcl")

\* C5 witness: an Indian origin and a foreign destination give the export
\* line in place of the incoming value
C5_Witness ==
    /\ Corrected
    /\ Get(candidate, "product_line") = Some("x")
    /\ Get(candidate, "origin_port_code") = MAA
    /\ Get(candidate, "destination_port_code") = HAM
    /\ Get(extracted, "product_line") = Some("pl_sea_export_lcl")

\* what rounding alone makes of an optional number
Rounded(o) == IF o = Null THEN Null ELSE Some(Round2(Val(o)))

\* C6 as stated: a candidate whose cargo_cbm is any non-null value, 0
\* included, keeps that value rounded to 2 decimals even when the body has an
\* RT value.
C6_RtOnlyWhenNull ==
    (Once /\ Get(candidate, "cargo_cbm") # Null)
        => Get(extracted, "cargo_cbm") = Rounded(Get(candidate, "cargo_cbm"))

\* C6 amended: post_process_extraction sets cargo_cbm from the body's RT value
\* exactly when the RT pattern matches and the candidate's cargo_cbm is null
\* or rounds to 0; a candidate whose cargo_cbm rounds to a non-zero value
\* keeps that rounded value even when the body contains an RT value.
C6_RtWhenUnsetOrZero ==
    Once =>
        LET cbm == Rounded(Get(candidate, "cargo_cbm"))
            rt == RtSearch(BodyLower)
        IN Get(extracted, "cargo_cbm") =
               IF rt # Null /\ (cbm = Null \/ Val(cbm) = 0)
               THEN Some(ParseRound2(Val(rt)))
               ELSE cbm

\* C6 witness: a volume of 0 has been replaced by the body's 2.4 RT
C6_Witness ==
    /\ Once
    /\ Get(candidate, "cargo_cbm") = Some(0)
    /\ HasFrag(<<"2", ".", "4", " ", "R", "T", " ">>)
    /\ Get(extracted, "cargo_cbm") = Some(2400)

\* s[i..j-1] is 1 to 3 digits followed by one or more groups ",ddd"
GroupedAt(s, i, j) ==
    \E m \in 1..3 :
        LET p == i + m
        IN /\ p < j
           /\ (j - p) % 4 = 0
           /\ \A k \in i..(p - 1) : IsDigit(s[k])
           /\ \A k \in p..(j - 1) : IF (k - p) % 4 = 0 THEN s[k] = "," ELSE IsDigit(s[k])

\* optional whitespace, then "kg", from position j
KgAfter(s, j) ==
    \E e \in j..(Len(s) - 1) :
        /\ \A k \in j..(e - 1) : IsSpace(s[k])
        /\ s[e] = "k" /\ s[e + 1] = "g"

\* a grouped-thousands weight occupies s[i..j-1]
CommaWeightAt(s, i, j) ==
    IsDigit(s[i]) /\ GroupedAt(s, i, j) /\ KgAfter(s, j)

\* the first grouped-thousands weight of s starts at i
FirstCommaWeightAt(s, i, j) ==
    /\ CommaWeightAt(s, i, j)
    /\ \A a \in 1..(i - 1) : ~\E b \in (a + 1)..(Len(s) + 1) : CommaWeightAt(s, a, b)

\* C7: whenever the body contains a grouped-thousands weight (1-3 digits, one
\* or more ",ddd" groups, optional whitespace, kg or kgs, any case), the
\* corrected cargo_weight_kg is that number (the first one in the body) with
\* the commas removed, whatever the candidate's weight and whatever the
\* rounding, consolidated-weight and small-weight steps would give.
C7_CommaWeight ==
    Once =>
        \A i \in 1..Len(Body) : \A j \in (i + 1)..(Len(Body) + 1) :
            FirstCommaWeightAt(BodyLower, i, j)
                => Get(extracted, "cargo_weight_kg") = Some(IntOfDigits(Body, i, j, 0) * 1000)

\* C7 witness: a weight of 32 has been replaced by the body's 3,200 KGS
C7_Witness ==
    /\ Once
    /\ Get(candidate, "cargo_weight_kg") = Some(32000)
    /\ HasFrag(<<"3", ",", "2", "0", "0", " ", "K", "G", "S", " ">>)
    /\ ~HasFrag(<<"1">>)
    /\ Get(extracted, "cargo_weight_kg") = Some(3200000)

\* the constraints of the output schema on a record
SchemaOk(d) ==
    /\ NonNegative(Get(d, "cargo_weight_kg"))
    /\ NonNegative(Get(d, "cargo_cbm"))
    /\ Get(d, "incoterm") # Null
    /\ Val(Get(d, "incoterm")) # ""

\* C8: if the candidate satisfies the output schema constraints (weight and
\* volume null or >= 0, incoterm a non-empty string), so does the record
\* post_process_extraction returns, for every body.
C8_ValidityPreserved ==
    (Corrected /\ SchemaOk(candidate)) => SchemaOk(extracted)

\* C8 witness: a valid candidate whose small weight the correction replaced
C8_Witness ==
    /\ Corrected
    /\ SchemaOk(candidate)
    /\ Get(candidate, "cargo_weight_kg") = Some(5000)
    /\ Get(extracted, "cargo_weight_kg") = Some(850000)

\* every field that is not optional holds a value of its type; an optional
\* field may be null or missing, a number must not be negative
OptionalNullsOnly(d) ==
    /\ Get(d, "id") # Null
    /\ ("incoterm" \in DOMAIN d => d["incoterm"] # Null)
    /\ ("is_dangerous" \in DOMAIN d => d["is_dangerous"] # Null)
    /\ NonNegative(Get(d, "cargo_weight_kg"))
    /\ NonNegative(Get(d, "cargo_cbm"))

\* C9: post_process_extraction on the null-filled fallback record, or on any
\* candidate with optional fields null or missing, and any body returns a
\* record that passes ShipmentExtraction validation: product_line is a
\* string and a port name is null when its code is null.
C9_NullTolerant ==
    /\ (Once /\ OptionalNullsOnly(candidate)) => Validates(extracted)
    /\ (pc = "validated" /\ OptionalNullsOnly(candidate)) =>
           /\ valid = "ok"
           /\ DOMAIN extracted = Fields
           /\ extracted["product_line"] \in {Some("pl_sea_import_lcl"), Some("pl_sea_export_lcl")}
           /\ (extracted["origin_port_code"] = Null => extracted["origin_port_name"] = Null)
           /\ (extracted["destination_port_code"] = Null
                  => extracted["destination_port_name"] = Null)

\* C9 witness: the fallback record has been corrected against a body with an
\* RT value and a weight, and validated
C9_Witness ==
    /\ pc = "validated"
    /\ candidate = Fallback("e1")
    /\ valid = "ok"
    /\ HasFrag(<<"2", ".", "4", " ", "R", "T", " ">>)
    /\ extracted["cargo_cbm"] = Some(2400)
    /\ extracted["origin_port_name"] = Null

\* the codes a candidate can carry
CodesIn == {Null, Some(<<>>), SZX, MAA, HAM, UnknownCode}
NamesOf(c) == {code_to_all_names[c][i] : i \in 1..Len(code_to_all_names[c])}

\* C10: get_best_port_name returns null only if the code is null, empty or
\* absent from code_to_all_names; for a code in the index, every body and
\* either value of is_destination it returns a name on record for that code.
\* (The resolver reads the body and the index only, and no step changes
\* either, so each email is examined once, as it arrives.)
C10_ResolverTotal ==
    pc = "email" =>
        \A code \in CodesIn : \A is_destination \in BOOLEAN :
            LET best == get_best_port_name(code, Body, code_to_all_names, is_destination)
            IN IF TruthyStr(code) /\ Val(code) \in DOMAIN code_to_all_names
               THEN best # Null /\ Val(best) \in NamesOf(Val(code))
               ELSE best = Null

\* C10 witness: a body naming a Bangalore ICD with a Hamburg destination,
\* whose name the correction took from Hamburg's names
C10_Witness ==
    /\ Corrected
    /\ HasFrag(<<"B", "-", ">", "B", "L", "R", " ", "i", "c", "d", ";">>)
    /\ Get(candidate, "destination_port_code") = HAM
    /\ Get(candidate, "destination_port_name") = Foo
    /\ Get(extracted, "destination_port_name") = Some(<<"H", "a", "m", "b", "u", "r", "g">>)

\* ------------------------------------------------------------------------
\* Applying one pattern extractor to one body
\* ------------------------------------------------------------------------
\* at most this many phrases in a body handed to an extractor
MaxScanFrags == 3

\* the right arrow, U+2192
RightArrow == <<"U2192">>

\* phrases of route lists: both spellings of the arrow in the source file,
\* the right arrow itself, abbreviations in either case, weights
ScanFrags == {
    <<";">>,
    <<"A", "-", ">", "M", "A", "A", " ">>,
    <<"-", ">", "b", "l", "r">>,
    RightArrow \o <<"H", "Y", "D">>,
    <<"B">> \o ArrowGlyph \o <<"B", "L", "R", " ", "I", "C", "D">>,
    <<"1", ",", "2">>,
    <<",", "3", " ", "k", "g">>,
    <<"2", ".", "5", "k", "g">>,
    <<" ", "t", "o", " ">>,
    <<"x">>
}

\* the concatenations of at most n phrases
RECURSIVE PhrasesOf(_, _)
PhrasesOf(frags, n) ==
    IF n = 0 THEN {<<>>}
    ELSE PhrasesOf(frags, n - 1) \cup {b \o f : b \in PhrasesOf(frags, n - 1), f \in frags}

\* the bodies the specification gives as examples, and a weight with two
\* thousands separators
ArrowExample == <<"A">> \o RightArrow \o <<"B", " ", "1", "k", "g", ";", " ", "C">> \o RightArrow \o <<"D", " ", "2", "k", "g">>
PlainExample == <<"A", " ", "t", "o", " ", "B", ",", " ", "1", "k", "g">>
WeightExample == <<"1", ",", "2", "3", "4", ",", "5", "6", "7", " ", "k", "g">>

ScanBodies == PhrasesOf(ScanFrags, MaxScanFrags) \cup {ArrowExample, PlainExample, WeightExample}

InitScan ==
    /\ ports = RefPorts
    /\ loaded = Len(RefPorts)
    /\ code_to_name = RefIndex.code_to_name
    /\ name_to_code = RefIndex.name_to_code
    /\ code_to_all_names = RefIndex.code_to_all_names
    /\ pc = "email"
    /\ \E b \in ScanBodies : email = [id |-> "e1", subject |-> <<>>, body |-> b]
    /\ candidate = EmptyDict
    /\ extracted = EmptyDict
    /\ prev = EmptyDict
    /\ passes = 0
    /\ valid = ""
    /\ Idle

IsConsolidatedInquiry ==
    /\ pc = "email"
    /\ result' = is_consolidated_inquiry(email.body)
    /\ pc' = "is_consolidated_inquiry"
    /\ UNCHANGED <<indexVars, emailVars, call_code, call_dest, retryVars, tasks, mainVars>>

GetConsolidatedDestOrder ==
    /\ pc = "email"
    /\ result' = get_consolidated_dest_order(email.body)
    /\ pc' = "get_consolidated_dest_order"
    /\ UNCHANGED <<indexVars, emailVars, call_code, call_dest, retryVars, tasks, mainVars>>

ExtractWeightFromConsolidated ==
    /\ pc = "email"
    /\ result' = extract_weight_from_consolidated(email.body)
    /\ pc' = "extract_weight_from_consolidated"
    /\ UNCHANGED <<indexVars, emailVars, call_code, call_dest, retryVars, tasks, mainVars>>

NextScan == IsConsolidatedInquiry \/ GetConsolidatedDestOrder \/ ExtractWeightFromConsolidated
SpecScan == InitScan /\ [][NextScan]_vars

\* C11: is_consolidated_inquiry(body) is true iff the body contains ";" and
\* an arrow token, the right arrow U+2192 or the digraph "->".
C11_ConsolidatedIff ==
    pc = "is_consolidated_inquiry" =>
        (result <=> /\ Contains(<<";">>, Body)
                    /\ (Contains(RightArrow, Body) \/ Contains(<<"-", ">">>, Body)))

\* ------------------------------------------------------------------------
\* Correction calls running in parallel on one index
\* ------------------------------------------------------------------------
\* this many correction calls run in parallel
MaxTasks == 2

\* the statements of post_process_extraction between two points where
\* another call may run: steps 1 to 5, the origin name, the destination name
LastStep == 7

ParBodies == {<<"A", "-", ">", "M", "A", "A", " ", "1", ".", "0", " ", "k", "g", ";", "B", "-", ">", "B", "L", "R", " ", "i", "c", "d", ";">>, <<"3", ",", "2", "0", "0", " ", "K", "G", "S", " ", " ", "t", "o", " ", "i", "n", "d", "i", "a", " ", "x", " ", "o", "r", " ", "y", " ">>}
ParCandidates == {Raw(SZX, Foo, MAA, Foo, Some(4), Null, Null),
                  Raw(MAA, Null, HAM, Null, Null, Some(2500), Some("x"))}

\* variant: the resolver reverses the name list of the destination's code in place
CorrectionStepReversing(k, d, email_data, idx) ==
    LET body == BodyOf(email_data)
        body_lower == Lower(body)
        dest_code == Get(d, "destination_port_code")
        names == idx.code_to_all_names
    IN [extracted |->
           CASE k = 1 -> ProductLine(d)
             [] k = 2 -> RoundFields(d)
             [] k = 3 -> RtOverride(d, body_lower)
             [] k = 4 -> ConsolidatedWeight(d, body)
             [] k = 5 -> CommaWeight(d, body_lower)
             [] k = 6 -> PortName(d, "origin_port_code", "origin_port_name",
                                  body, idx.code_to_all_names, FALSE)
             [] k = 7 -> PortName(d, "destination_port_code", "destination_port_name",
                                  body, idx.code_to_all_names, TRUE),
        index |->
           IF k = 7 /\ TruthyStr(dest_code) /\ Val(dest_code) \in DOMAIN names
           THEN [idx EXCEPT !.code_to_all_names[Val(dest_code)] =
                     [i \in 1..Len(@) |-> @[Len(@) + 1 - i]]]
           ELSE idx]

\* step k of post_process_extraction on the working record d: the record
\* and the index after it (the index is read in steps 6 and 7, never written)
CorrectionStep(k, d, email_data, idx) ==
    LET body == BodyOf(email_data)
        body_lower == Lower(body)
    IN [extracted |->
           CASE k = 1 -> ProductLine(d)
             [] k = 2 -> RoundFields(d)
             [] k = 3 -> RtOverride(d, body_lower)
             [] k = 4 -> ConsolidatedWeight(d, body)
             [] k = 5 -> CommaWeight(d, body_lower)
             [] k = 6 -> PortName(d, "origin_port_code", "origin_port_name",
                                  body, idx.code_to_all_names, FALSE)
             [] k = 7 -> PortName(d, "destination_port_code", "destination_port_name",
                                  body, idx.code_to_all_names, TRUE),
        index |-> idx]

InitPar ==
    /\ ports = RefPorts
    /\ loaded = Len(RefPorts)
    /\ code_to_name = RefIndex.code_to_name
    /\ name_to_code = RefIndex.name_to_code
    /\ code_to_all_names = RefIndex.code_to_all_names
    /\ pc = "parallel"
    /\ email = [id |-> "e1", subject |-> <<>>, body |-> <<>>]
    /\ candidate = EmptyDict
    /\ extracted = EmptyDict
    /\ prev = EmptyDict
    /\ passes = 0
    /\ valid = ""
    /\ call_code = Null
    /\ call_dest = FALSE
    /\ result = Null
    /\ attempt = 0
    /\ slept = <<>>
    /\ NoRun
    /\ responses = <<>>
    /\ tasks \in [1..MaxTasks ->
                    {[step |-> 0,
                      email |-> [id |-> "e1", subject |-> <<>>, body |-> b],
                      candidate |-> c,
                      extracted |-> c] : b \in ParBodies, c \in ParCandidates}]

\* one call runs its next step
CorrectionStepOf(i) ==
    /\ tasks[i].step < LastStep
    /\ LET r == CorrectionStep(tasks[i].step + 1, tasks[i].extracted, tasks[i].email,
                               [code_to_name |-> code_to_name, name_to_code |-> name_to_code,
                                code_to_all_names |-> code_to_all_names])
       IN /\ tasks' = [tasks EXCEPT ![i].step = @ + 1, ![i].extracted = r.extracted]
          /\ code_to_name' = r.index.code_to_name
          /\ name_to_code' = r.index.name_to_code
          /\ code_to_all_names' = r.index.code_to_all_names
    /\ UNCHANGED <<ports, loaded, pc, emailVars, callVars, retryVars, mainVars>>

NextPar == \E i \in 1..MaxTasks : CorrectionStepOf(i)
SpecPar == InitPar /\ [][NextPar]_vars

\* C12: no step of a correction call changes code_to_name, name_to_code or
\* code_to_all_names, and whatever the interleaving of the parallel calls,
\* each call returns what post_process_extraction returns for its record
\* and email when it runs alone on that index.
C12_ReadSafety ==
    /\ [][UNCHANGED indexVars]_vars
    /\ [](\A i \in 1..MaxTasks :
            tasks[i].step = LastStep =>
                tasks[i].extracted =
                    post_process_extraction(tasks[i].candidate, tasks[i].email,
                                            code_to_name, name_to_code, code_to_all_names))

\* C12 witness: the first call has resolved its Chennai destination from the
\* body's two routes while the second call, on another email with the same
\* destination code, is between its steps
C12_Witness ==
    /\ tasks[1].step = LastStep
    /\ tasks[2].step \in 3..6
    /\ tasks[1].email.body # tasks[2].email.body
    /\ Get(tasks[1].candidate, "destination_port_code") = MAA
    /\ Get(tasks[2].candidate, "destination_port_code") = MAA
    /\ Get(tasks[1].extracted, "destination_port_name") = Some(<<"C", "h", "e", "n", "n", "a", "i", " ", "I", "C", "D", " ", "/", " ", "B", "a", "n", "g", "a", "l", "o", "r", "e", " ", "I", "C", "D">>)
    /\ Get(tasks[2].extracted, "destination_port_name") = Foo

\* ------------------------------------------------------------------------
\* call_llm_and_parse: the attempts of one call
\* ------------------------------------------------------------------------
max_retries == 3

EmailIds == {"e1", "e2"}

\* what one call of the language model gives: the client raises, or the
\* content is not JSON, or it is JSON for an object, an array or a scalar
\* (value is what json.loads returned, when that is a dict)
ApiError == [kind |-> "error", value |-> Null]
NotJson == [kind |-> "text", value |-> Null]
JsonArray == [kind |-> "array", value |-> Null]
JsonScalar == [kind |-> "scalar", value |-> Null]
JsonObjects ==
    {[kind |-> "object", value |-> d] :
        d \in {EmptyDict,
               Raw(SZX, Null, MAA, Null, Some(5000), Null, Null),
               [id |-> Some("zz"), cargo_cbm |-> Some(1500)]}}

\* json.loads succeeds
Parseable(r) == r.kind \in {"object", "array", "scalar"}
\* and the item assignment extracted_data["id"] = email_id succeeds
IsObject(r) == r.kind = "object"

RECURSIVE Pow2(_)
Pow2(n) == IF n = 0 THEN 1 ELSE 2 * Pow2(n - 1)

\* variant: the sleep follows every failed attempt
SleepAfterAlways(att, log) == Append(log, Pow2(att))

\* the sleep log after the handler of a failed attempt
SleepAfter(att, log) ==
    IF att < max_retries - 1 THEN Append(log, Pow2(att)) ELSE log

InitRetry ==
    /\ ports = RefPorts
    /\ loaded = Len(RefPorts)
    /\ code_to_name = RefIndex.code_to_name
    /\ name_to_code = RefIndex.name_to_code
    /\ code_to_all_names = RefIndex.code_to_all_names
    /\ pc = "attempt"
    /\ \E e \in EmailIds : email = [id |-> e, subject |-> <<>>, body |-> <<>>]
    /\ candidate = EmptyDict
    /\ extracted = EmptyDict
    /\ prev = EmptyDict
    /\ passes = 0
    /\ valid = ""
    /\ Idle

\* the handler of a failed attempt, and the loop's next round or its end
NextAttempt ==
    /\ slept' = SleepAfter(attempt, slept)
    /\ attempt' = attempt + 1
    /\ pc' = IF attempt + 1 < max_retries THEN "attempt" ELSE "exhausted"
    /\ UNCHANGED <<indexVars, emailVars, callVars, tasks, mainVars>>

\* the try block runs to its return
AttemptReturns ==
    /\ pc = "attempt"
    /\ \E r \in JsonObjects :
          /\ responses' = Append(responses, r)
          /\ candidate' = Put(r.value, "id", Some(email.id))
    /\ pc' = "returned"
    /\ UNCHANGED <<indexVars, email, extracted, prev, passes, valid>>
    /\ UNCHANGED <<callVars, attempt, slept, tasks, mainVars>>

\* json.loads raises
JsonDecodeError ==
    /\ pc = "attempt"
    /\ responses' = Append(responses, NotJson)
    /\ NextAttempt

\* the client raises, or the item assignment does on a value that is no dict
OtherException ==
    /\ pc = "attempt"
    /\ \E r \in {ApiError, JsonArray, JsonScalar} : responses' = Append(responses, r)
    /\ NextAttempt

\* the return after the loop
ReturnFallback ==
    /\ pc = "exhausted"
    /\ candidate' = Fallback(email.id)
    /\ pc' = "returned"
    /\ UNCHANGED <<indexVars, email, extracted, prev, passes, valid>>
    /\ UNCHANGED <<callVars, retryVars, tasks, mainVars>>

NextRetry == AttemptReturns \/ JsonDecodeError \/ OtherException \/ ReturnFallback
SpecRetry == InitRetry /\ [][NextRetry]_vars
\* the call runs on: every statement of the function is followed by the next
SpecRetryFair == SpecRetry /\ WF_vars(NextRetry)

\* the sleeps 1, 2, ... after the first n failed attempts that another follows
Backoffs(n) == [k \in 1..(IF n < max_retries - 1 THEN n ELSE max_retries - 1) |-> Pow2(k - 1)]

\* what holds while the call runs and after it, when Succeeds(r) says which
\* responses end it: at most 3 attempts; a response that ends the call is
\* the last one, and the call has returned its record with the id set; a
\* call that returned without such a response made 3 attempts and returned
\* the fallback; the sleeps are those between the failed attempts
RetryInvariant(Succeeds(_)) ==
    /\ Len(responses) <= max_retries
    /\ \A k \in 1..Len(responses) :
          Succeeds(responses[k]) =>
              /\ k = Len(responses)
              /\ pc = "returned"
              /\ candidate = Put(responses[k].value, "id", Some(email.id))
    /\ pc = "returned" /\ ~(\E k \in 1..Len(responses) : Succeeds(responses[k])) =>
          /\ Len(responses) = max_retries
          /\ candidate = Fallback(email.id)
    /\ LET failed == Cardinality({k \in 1..Len(responses) : ~Succeeds(responses[k])})
       IN slept = Backoffs(failed)

MaxResolveFrags == 2

\* phrases the rules of the resolver look for: route lists of one and two
\* destinations, "to india" after a space, at the start, after a newline,
\* ICD and PPG, city keywords, the "or" and "/" patterns
ResolveFrags == {
    <<"A", "-", ">", "M", "A", "A", ";", "B", "-", ">", "B", "L", "R", ";">>,
    <<"B", "-", ">", "B", "L", "R", " ", "i", "c", "d", ";", "A", "-", ">", "M", "A", "A", ";">>,
    <<"A", "-", ">", "M", "A", "A", ";">>,
    <<" ", "t", "o", " ", "i", "n", "d", "i", "a">>,
    <<"t", "o", " ", "i", "n", "d", "i", "a">>,
    <<"\n">> \o <<"t", "o", " ", "i", "n", "d", "i", "a">>,
    <<" ", "i", "c", "d">>,
    <<" ", "p", "p", "g">>,
    <<"c", "h", "e", "n", "n", "a", "i">>,
    <<"b", "l", "r", " ", "i", "c", "d">>,
    <<"w", "h", "i", "t", "e", "f", "i", "e", "l", "d">>,
    <<"x", " ", "o", "r", " ", "y">>,
    <<"a", "/", "b">>
}

\* the example of the specification
IcdExample == <<"S", "h", "i", "p", "m", "e", "n", "t", " ", "f", "r", "o", "m", " ", "H", "a", "m", "b", "u", "r", "g", " ", "t", "o", " ", "C", "h", "e", "n", "n", "a", "i", " ", "I", "C", "D", " ", "v", "i", "a", " ", "S", "i", "n", "g", "a", "p", "o", "r", "e", ",", " ", "8", "5", "0", "k", "g", ",", " ", "F", "O", "B">>

ResolveBodies == PhrasesOf(ResolveFrags, MaxResolveFrags) \cup {IcdExample}

\* name lists of a code, in file order: the reference's Chennai names; a
\* combined name before the one the routes spell, a reordered ICD name and
\* two shortest names; combined names only; plain names only; ICD names
\* none of which is a label of the keyword table except Whitefield's
ChennaiNames == <<<<"C", "h", "e", "n", "n", "a", "i">>, <<"C", "h", "e", "n", "n", "a", "i", " ", "I", "C", "D">>, <<"B", "a", "n", "g", "a", "l", "o", "r", "e", " ", "I", "C", "D">>,
                  <<"C", "h", "e", "n", "n", "a", "i", " ", "I", "C", "D", " ", "/", " ", "B", "a", "n", "g", "a", "l", "o", "r", "e", " ", "I", "C", "D">>, <<"I", "n", "d", "i", "a", " ", "(", "C", "h", "e", "n", "n", "a", "i", ")">>>>
MixedNames == <<<<"M", "a", "d", "r", "a", "s", " ", "/", " ", "C", "h", "e", "n", "n", "a", "i">>, <<"I", "C", "D", " ", "B", "a", "n", "g", "a", "l", "o", "r", "e">>, <<"C", "h", "e", "n", "n", "a", "i", " ", "I", "C", "D", " ", "/", " ", "B", "a", "n", "g", "a", "l", "o", "r", "e", " ", "I", "C", "D">>,
                <<"G", "o", "a">>, <<"H", "u", "b">>, <<"P", "o", "r", "t", " ", "o", "f", " ", "I", "n", "d", "i", "a">>>>
CombinedNames == <<<<"S", "h", "e", "n", "z", "h", "e", "n", " ", "/", " ", "G", "u", "a", "n", "g", "z", "h", "o", "u">>, <<"A", " ", "/", " ", "B">>>>
PlainNames == <<<<"H", "a", "m", "b", "u", "r", "g", " ", "P", "o", "r", "t">>, <<"H", "a", "m", "b", "u", "r", "g">>>>
IcdNames == <<<<"P", "o", "r", "t", " ", "X">>, <<"I", "C", "D", " ", "Y", " ", "/", " ", "I", "C", "D", " ", "Z">>, <<"P", "a", "t", "p", "a", "r", "g", "a", "n", "j", " ", "I", "C", "D">>, <<"I", "C", "D", " ", "c", "h", "e", "n", "n", "a", "i", " ", "e", "a", "s", "t">>,
              <<"I", "C", "D", " ", "W", "h", "i", "t", "e", "f", "i", "e", "l", "d">>>>

\* the calls: a code and the names on record for it
CodeNames == {<<<<"I", "N", "M", "A", "A">>, ChennaiNames>>, <<<<"I", "N", "M", "A", "A">>, MixedNames>>,
              <<<<"I", "N", "M", "A", "A">>, CombinedNames>>, <<<<"I", "N", "M", "A", "A">>, IcdNames>>,
              <<<<"D", "E", "H", "A", "M">>, PlainNames>>, <<<<"D", "E", "H", "A", "M">>, MixedNames>>}

InitResolve ==
    /\ ports = <<>>
    /\ loaded = 0
    /\ code_to_name = EmptyDict
    /\ name_to_code = EmptyDict
    /\ pc = "email"
    /\ \E b \in ResolveBodies : email = [id |-> "e1", subject |-> <<>>, body |-> b]
    /\ candidate = EmptyDict
    /\ extracted = EmptyDict
    /\ prev = EmptyDict
    /\ passes = 0
    /\ valid = ""
    /\ \E cn \in CodeNames :
          /\ call_code = Some(cn[1])
          /\ code_to_all_names = (cn[1] :> cn[2])
    /\ call_dest \in BOOLEAN
    /\ result = Null
    /\ attempt = 0
    /\ slept = <<>>
    /\ NoRun
    /\ responses = <<>>
    /\ tasks = <<>>

GetBestPortName ==
    /\ pc = "email"
    /\ result' = get_best_port_name(call_code, email.body, code_to_all_names, call_dest)
    /\ pc' = "get_best_port_name"
    /\ UNCHANGED <<indexVars, emailVars, call_code, call_dest, retryVars, tasks, mainVars>>

NextResolve == GetBestPortName
SpecResolve == InitResolve /\ [][NextResolve]_vars

\* the call has returned
Resolved == pc = "get_best_port_name"
\* the names on record for the code of the call, and those of a kind
AllNames == code_to_all_names[Val(call_code)]
NamesWith(P(_)) == SelectSeq(AllNames, P)
Combined(n) == Contains(<<" ", "/", " ">>, n)
Simple(n) == ~Contains(<<" ", "/", " ">>, n)
\* rule 1 applies: a destination, a consolidated body, two or more cities
Rule1Case ==
    /\ call_dest
    /\ is_consolidated_inquiry(Body)
    /\ Len(get_consolidated_dest_order(Body)) >= 2
\* the cities joined as "<City> ICD" with " / "
RECURSIVE JoinedIcd(_)
JoinedIcd(cities) ==
    IF Len(cities) = 1 THEN cities[1] \o <<" ", "I", "C", "D">>
    ELSE cities[1] \o <<" ", "I", "C", "D", " ", "/", " ">> \o JoinedIcd(Tail(cities))

SeveralPorts == OrPattern(BodyLower) \/ SlashPattern(BodyLower)
\* name n is on record and no name of the kind P is shorter
ShortestOf(n, P(_)) ==
    /\ InSeq(NamesWith(P), n)
    /\ \A k \in 1..Len(NamesWith(P)) : Len(n) <= Len(NamesWith(P)[k])

\* C15 as stated: for an origin the result is a name containing " / " when
\* the lower-cased body has the "or" or the "/" pattern and such a name is on
\* record; in every other origin case it is a shortest name without " / ".
C15_OriginShortestOtherwise ==
    Resolved /\ ~call_dest =>
        IF SeveralPorts /\ Len(NamesWith(Combined)) > 0
        THEN result # Null /\ Combined(Val(result)) /\ InSeq(AllNames, Val(result))
        ELSE result # Null /\ ShortestOf(Val(result), Simple)

\* C15 amended: the same, where in the other origin cases the result is a
\* shortest name without " / " when there is one and the first name on
\* record when every name contains " / ".
C15_OriginName ==
    Resolved /\ ~call_dest =>
        IF SeveralPorts /\ Len(NamesWith(Combined)) > 0
        THEN result # Null /\ Combined(Val(result)) /\ InSeq(AllNames, Val(result))
        ELSE IF Len(NamesWith(Simple)) > 0
        THEN result # Null /\ ShortestOf(Val(result), Simple)
        ELSE result = Some(AllNames[1])

\* C15 witness: an origin call whose body says "x or y" and also "icd": the
\* first combined name was returned
C15_Witness ==
    /\ Resolved
    /\ ~call_dest
    /\ Body = <<"x", " ", "o", "r", " ", "y", " ", "i", "c", "d">>
    /\ AllNames = MixedNames
    /\ result = Some(<<"M", "a", "d", "r", "a", "s", " ", "/", " ", "C", "h", "e", "n", "n", "a", "i">>)

\* rule 1 returns a name: its case holds and a combined name is on record
Rule1Returns == Rule1Case /\ Len(NamesWith(Combined)) > 0
SaysIcd == Contains(<<"i", "c", "d">>, BodyLower)
SaysPpg == Contains(<<"p", "p", "g">>, BodyLower)
\* the "ICD <City>" form of a label of the keyword table
Reordered(label) == <<"I", "C", "D", " ">> \o Replace(label, <<" ", "I", "C", "D">>, <<>>)
\* entry k of the keyword table resolves: its keyword is in the body and its
\* label, or the reordered label, is on record
Resolves(k) ==
    /\ Contains(city_keywords[k][1], BodyLower)
    /\ \/ InSeq(AllNames, city_keywords[k][2])
       \/ InSeq(AllNames, Reordered(city_keywords[k][2]))
NameOfEntry(k) ==
    IF InSeq(AllNames, city_keywords[k][2]) THEN city_keywords[k][2]
    ELSE Reordered(city_keywords[k][2])
IcdSimple(n) == Contains(<<"i", "c", "d">>, Lower(n)) /\ Simple(n)
IcdChennai(n) == IcdSimple(n) /\ Contains(<<"c", "h", "e", "n", "n", "a", "i">>, Lower(n))

\* C16: for a destination whose body says "icd" (and that rule 1 did not
\* name), the result is, for the first entry of the keyword table, in its
\* order, that resolves, the entry's label if on record, else "ICD <City>";
\* when no entry resolves, or the body says "ppg" and not "icd", it is the
\* first name containing "icd" and no " / ", one containing "chennai" if
\* there is one.  The specification's example with code INMAA gives
\* "Chennai ICD".
C16_IcdKeyword ==
    /\ Resolved /\ call_dest /\ ~Rule1Returns /\ (SaysIcd \/ SaysPpg) =>
          LET hits == {k \in 1..Len(city_keywords) : SaysIcd /\ Resolves(k)}
          IN IF hits # {}
             THEN result = Some(NameOfEntry(CHOOSE k \in hits : \A m \in hits : k <= m))
             ELSE IF Len(NamesWith(IcdChennai)) > 0
             THEN result = Some(NamesWith(IcdChennai)[1])
             ELSE IF Len(NamesWith(IcdSimple)) > 0
             THEN result = Some(NamesWith(IcdSimple)[1])
             ELSE TRUE
    /\ Resolved /\ call_dest /\ Body = IcdExample /\ call_code = MAA
          /\ AllNames = ChennaiNames =>
              result = Some(<<"C", "h", "e", "n", "n", "a", "i", " ", "I", "C", "D">>)

\* C16 witness: the body says "chennai", "blr" and "icd"; no Chennai label is
\* on record for the code, nor "Bangalore ICD", but "ICD Bangalore" is, and
\* was returned
C16_Witness ==
    /\ Resolved
    /\ call_dest
    /\ Body = <<"c", "h", "e", "n", "n", "a", "i", "b", "l", "r", " ", "i", "c", "d">>
    /\ AllNames = MixedNames
    /\ result = Some(<<"I", "C", "D", " ", "B", "a", "n", "g", "a", "l", "o", "r", "e">>)

IndiaNamed(n) == Contains(<<"i", "n", "d", "i", "a">>, Lower(n))

\* C17: for a destination with code INMAA whose lower-cased body contains
\* "to india", wherever it occurs, and neither "icd" nor "ppg", and that rule
\* 1 did not name, the result is a name containing "india" when one is on
\* record.
C17_ToIndiaAnywhere ==
    /\ Resolved /\ call_dest /\ call_code = MAA /\ ~Rule1Returns
    /\ Contains(<<"t", "o", " ", "i", "n", "d", "i", "a">>, BodyLower) /\ ~SaysIcd /\ ~SaysPpg
    /\ Len(NamesWith(IndiaNamed)) > 0
    => result # Null /\ IndiaNamed(Val(result))

\* an earlier rule returns a name
Rule2Returns == ~call_dest /\ SeveralPorts /\ Len(NamesWith(Combined)) > 0
Rule3Returns ==
    /\ call_dest /\ call_code = MAA
    /\ Contains(<<" ", "t", "o", " ", "i", "n", "d", "i", "a">>, BodyLower) /\ ~SaysIcd /\ ~SaysPpg
    /\ Len(NamesWith(IndiaNamed)) > 0
Rule4Returns ==
    /\ call_dest /\ (SaysIcd \/ SaysPpg)
    /\ \/ SaysIcd /\ \E k \in 1..Len(city_keywords) : Resolves(k)
       \/ Len(NamesWith(IcdSimple)) > 0
NoRuleReturns == ~Rule1Returns /\ ~Rule2Returns /\ ~Rule3Returns /\ ~Rule4Returns

\* C18: when no earlier rule returns, the result is, among the names without
\* " / ", the first on record of those of minimal length; when every name
\* contains " / ", it is the first name on record.
C18_DefaultName ==
    Resolved /\ NoRuleReturns =>
        LET simple == NamesWith(Simple)
        IN IF Len(simple) > 0
           THEN \E i \in 1..Len(simple) :
                   /\ result = Some(simple[i])
                   /\ \A k \in 1..Len(simple) : Len(simple[i]) <= Len(simple[k])
                   /\ \A k \in 1..(i - 1) : Len(simple[k]) > Len(simple[i])
           ELSE result = Some(AllNames[1])

\* C18 witness: a Hamburg destination whose body says "to india"; of the two
\* shortest names on record, "Goa" and "Hub", the first was returned
C18_Witness ==
    /\ Resolved
    /\ call_dest
    /\ call_code = HAM
    /\ Body = <<" ", "t", "o", " ", "i", "n", "d", "i", "a">>
    /\ AllNames = MixedNames
    /\ result = Some(<<"G", "o", "a">>)

Called(f) == pc = f
\* where the first arrow token of a segment ends: 0 when it has none
FirstArrowEnd(seg) ==
    LET starts == {i \in 1..Len(seg) : MatchAt(RightArrow, seg, i) \/ MatchAt(<<"-", ">">>, seg, i)}
        first == CHOOSE i \in starts : \A j \in starts : i <= j
    IN IF starts = {} THEN 0
       ELSE IF MatchAt(RightArrow, seg, first) THEN first + Len(RightArrow) - 1
       ELSE first + 1
\* the city of the first of MAA, BLR, HYD that occurs in the text, if any
CityIn(text) ==
    IF Contains(<<"M", "A", "A">>, text) THEN <<<<"C", "h", "e", "n", "n", "a", "i">>>>
    ELSE IF Contains(<<"B", "L", "R">>, text) THEN <<<<"B", "a", "n", "g", "a", "l", "o", "r", "e">>>>
    ELSE IF Contains(<<"H", "Y", "D">>, text) THEN <<<<"H", "y", "d", "e", "r", "a", "b", "a", "d">>>>
    ELSE <<>>
\* what a segment contributes: from all that follows its arrow token
CityAfterArrow(seg) ==
    IF FirstArrowEnd(seg) = 0 THEN <<>>
    ELSE CityIn(Upper(SubSeq(seg, FirstArrowEnd(seg) + 1, Len(seg))))
RECURSIVE CitiesAfterArrows(_)
CitiesAfterArrows(segs) ==
    IF Len(segs) = 0 THEN <<>>
    ELSE CityAfterArrow(Head(segs)) \o CitiesAfterArrows(Tail(segs))

\* C19: get_consolidated_dest_order gives, for the segments between the
\* semicolons in order, the city of the first of MAA, BLR, HYD that occurs in
\* the upper-cased whole text after the segment's arrow token (the right
\* arrow or "->"), segments without an arrow or an abbreviation giving
\* nothing; so it has at most as many cities as there are segments.
C19_WholeTextAfterArrow ==
    Called("get_consolidated_dest_order") =>
        /\ result = CitiesAfterArrows(Split(Body, <<";">>))
        /\ Len(result) <= Len(Split(Body, <<";">>))

\* where ",digits" groups starting at i end: i itself when there is none
RECURSIVE GroupsEnd(_, _)
GroupsEnd(s, i) ==
    IF i + 1 <= Len(s) /\ s[i] = "," /\ IsDigit(s[i + 1])
    THEN GroupsEnd(s, DigitRunEnd(s, i + 1))
    ELSE i
\* where a number with any count of ",digits" groups and an optional
\* ".digits" fraction, starting at the digit at i, ends (the index after it)
NumberEnd(s, i) ==
    LET g == GroupsEnd(s, DigitRunEnd(s, i))
    IN IF g + 1 <= Len(s) /\ s[g] = "." /\ IsDigit(s[g + 1])
       THEN DigitRunEnd(s, g + 1)
       ELSE g
\* such a number starts at i and optional whitespace and "kg" follow it
WeightAt(s, i) ==
    /\ IsDigit(s[i])
    /\ MatchAt(<<"k", "g">>, s, SpaceRunEnd(s, NumberEnd(s, i)))
\* the value of the first such occurrence, if any
FirstWeight(s) ==
    LET at == {i \in 1..Len(s) : WeightAt(s, i)}
        i == CHOOSE k \in at : \A m \in at : k <= m
    IN IF at = {} THEN Null
       ELSE Some(ParseRound2(StripCommas(SubSeq(s, i, NumberEnd(s, i) - 1))))

\* C20: extract_weight_from_consolidated returns the value of the first
\* occurrence, in the lower-cased body, of digits, any number of ",digits"
\* groups, an optional ".digits", optional whitespace and "kg", with the
\* commas removed ("1,234,567 kg" gives 1234567), and null iff there is no
\* such occurrence.
C20_AnyNumberOfGroups ==
    Called("extract_weight_from_consolidated") =>
        /\ result = FirstWeight(BodyLower)
        /\ Body = WeightExample => result = Some(1234567000)

\* the weight of the candidate after steps 1 to 4 of the correction
WeightBeforeStep5 ==
    Get(ConsolidatedWeight(RtOverride(RoundFields(ProductLine(candidate)), BodyLower), Body),
        "cargo_weight_kg")
\* the lower-cased body has a grouped-thousands weight
HasCommaWeight ==
    \E i \in 1..Len(Body) : \E j \in (i + 1)..(Len(Body) + 1) : CommaWeightAt(BodyLower, i, j)
\* the values, in thousandths, of the plain-digit weights of the lower-cased
\* body: a run of digits, optional whitespace, "kg"
PlainWeights ==
    {IntOfDigits(BodyLower, i, DigitRunEnd(BodyLower, i), 0) * 1000 :
        i \in {k \in 1..Len(Body) :
                  /\ IsDigit(BodyLower[k])
                  /\ (k = 1 \/ ~IsDigit(BodyLower[k - 1]))
                  /\ KgAfter(BodyLower, DigitRunEnd(BodyLower, k))}}

\* C21: when the body has no grouped-thousands weight and the weight after
\* steps 2 to 4 is below 10, the corrected weight is a plain-digit weight of
\* the body that exceeds 100 times that weight, whenever the body has one;
\* when the weight is 10 or more, step 5 leaves it as it was.
C21_AnyLargerOccurrence ==
    Once /\ ~HasCommaWeight /\ WeightBeforeStep5 # Null =>
        LET weight == Val(WeightBeforeStep5)
            larger == {v \in PlainWeights : v > weight * 100}
        IN IF weight < 10 * 1000
           THEN larger # {} => \E v \in larger : Get(extracted, "cargo_weight_kg") = Some(v)
           ELSE Get(extracted, "cargo_weight_kg") = WeightBeforeStep5

\* the names of the first n records that carry code c, in file order
RECURSIVE NamesInOrder(_, _)
NamesInOrder(c, n) ==
    IF n = 0 THEN <<>>
    ELSE IF ports[n].code = c THEN Append(NamesInOrder(c, n - 1), ports[n].name)
    ELSE NamesInOrder(c, n - 1)
\* the position of the first record with code c and name nm
FirstSeen(c, nm) ==
    CHOOSE i \in 1..loaded :
        /\ ports[i].code = c /\ ports[i].name = nm
        /\ \A k \in 1..(i - 1) : ~(ports[k].code = c /\ ports[k].name = nm)
CodesSeen == {ports[i].code : i \in 1..loaded}

\* C22 as stated: after any sequence of records, repeated ones included,
\* code_to_all_names[code] holds every name seen for the code exactly once,
\* in order of first insertion.
C22_OrderedSet ==
    \A c \in CodesSeen :
        LET names == code_to_all_names[c]
        IN /\ {names[i] : i \in 1..Len(names)} = NamesSeen(c, loaded)
           /\ \A i, j \in 1..Len(names) :
                 i < j => /\ names[i] # names[j]
                          /\ FirstSeen(c, names[i]) < FirstSeen(c, names[j])

\* C22 amended: code_to_all_names has exactly the codes seen, and
\* code_to_all_names[code] holds the names of the code's records in file
\* order, one entry a record: a name is repeated as often as its record is,
\* and the first entries of the distinct names are in order of insertion.
C22_AllNamesInFileOrder ==
    /\ DOMAIN code_to_all_names = CodesSeen
    /\ \A c \in CodesSeen : code_to_all_names[c] = NamesInOrder(c, loaded)

\* C22 witness: (INMAA, Goa), (INMAA, Chennai), (INMAA, Goa) loaded; Goa is
\* on record twice
C22_Witness ==
    /\ loaded = 3
    /\ ports = <<[code |-> <<"I", "N", "M", "A", "A">>, name |-> <<"G", "o", "a">>],
                 [code |-> <<"I", "N", "M", "A", "A">>, name |-> <<"C", "h", "e", "n", "n", "a", "i">>],
                 [code |-> <<"I", "N", "M", "A", "A">>, name |-> <<"G", "o", "a">>]>>
    /\ code_to_all_names[<<"I", "N", "M", "A", "A">>] = <<<<"G", "o", "a">>, <<"C", "h", "e", "n", "n", "a", "i">>, <<"G", "o", "a">>>>

\* ------------------------------------------------------------------------
\* Runs of main over emails_input.json and output.json
\* ------------------------------------------------------------------------
\* at most this many emails in emails_input.json
MaxEmails == 2
\* at most this many runs of main, one after the other
MaxRuns == 2

\* the input files: any list of ids, nothing in main asks them to differ
EmailFiles == UNION {[1..n -> EmailIds] : n \in 0..MaxEmails}

\* what extract_single_email can return for an email: the validated record,
\* its id the email's id
Shipments(email_id) ==
    {[id |-> email_id, product_line |-> p] :
        p \in {"pl_sea_import_lcl", "pl_sea_export_lcl"}}

\* output.json as json.dump wrote it
ResultsFile(rs) == [kind |-> "list", value |-> rs]
\* output.json opened for writing and not written to its end
CutFile == [kind |-> "cut", value |-> <<>>]

\* the results main starts from: those of output.json, none when there is no
\* file or json.load raises JSONDecodeError
LoadResults(file) ==
    IF file # Null /\ file.kind = "list" THEN file.value ELSE <<>>

IdsOf(rs) == {rs[k].id : k \in 1..Len(rs)}

InitMain ==
    /\ ports = <<>>
    /\ loaded = 0
    /\ code_to_name = EmptyDict
    /\ name_to_code = EmptyDict
    /\ code_to_all_names = EmptyDict
    /\ email = [id |-> "e1", subject |-> <<>>, body |-> <<>>]
    /\ candidate = EmptyDict
    /\ extracted = EmptyDict
    /\ prev = EmptyDict
    /\ passes = 0
    /\ valid = ""
    /\ call_code = Null
    /\ call_dest = FALSE
    /\ result = Null
    /\ attempt = 0
    /\ slept = <<>>
    /\ responses = <<>>
    /\ tasks = <<>>
    /\ pc = "shell"
    /\ emails \in EmailFiles
    /\ output_json = Null
    /\ results = <<>>
    /\ processed_ids = {}
    /\ loop_i = 0
    /\ calls = [id \in EmailIds |-> 0]
    /\ runs = 0

notMain == <<indexVars, emailVars, callVars, retryVars, tasks>>

\* main is started: it reads the input and takes up what output.json holds
MainResume ==
    /\ pc \in {"shell", "raised", "done"}
    /\ runs < MaxRuns
    /\ runs' = runs + 1
    /\ results' = LoadResults(output_json)
    /\ processed_ids' = IdsOf(LoadResults(output_json))
    /\ loop_i' = 1
    /\ pc' = "loop"
    /\ UNCHANGED <<emails, output_json, calls>>
    /\ UNCHANGED notMain

\* the email of this round was processed by an earlier run: continue
MainSkip ==
    /\ pc = "loop"
    /\ loop_i <= Len(emails)
    /\ emails[loop_i] \in processed_ids
    /\ loop_i' = loop_i + 1
    /\ UNCHANGED <<pc, emails, output_json, results, processed_ids, calls, runs>>
    /\ UNCHANGED notMain

\* the email of this round is extracted, its result appended and output.json
\* written anew
MainProcess ==
    /\ pc = "loop"
    /\ loop_i <= Len(emails)
    /\ emails[loop_i] \notin processed_ids
    /\ \E r \in Shipments(emails[loop_i]) :
          /\ results' = Append(results, r)
          /\ output_json' = ResultsFile(Append(results, r))
    /\ calls' = [calls EXCEPT ![emails[loop_i]] = @ + 1]
    /\ loop_i' = loop_i + 1
    /\ UNCHANGED <<pc, emails, processed_ids, runs>>
    /\ UNCHANGED notMain

\* extract_single_email raises an Exception: output.json is written with the
\* results so far and the exception ends the run
MainException ==
    /\ pc = "loop"
    /\ loop_i <= Len(emails)
    /\ emails[loop_i] \notin processed_ids
    /\ calls' = [calls EXCEPT ![emails[loop_i]] = @ + 1]
    /\ output_json' = ResultsFile(results)
    /\ pc' = "raised"
    /\ UNCHANGED <<emails, results, processed_ids, loop_i, runs>>
    /\ UNCHANGED notMain

\* KeyboardInterrupt while extract_single_email runs: the run ends, nothing
\* is written
MainKeyboardInterrupt ==
    /\ pc = "loop"
    /\ loop_i <= Len(emails)
    /\ emails[loop_i] \notin processed_ids
    /\ calls' = [calls EXCEPT ![emails[loop_i]] = @ + 1]
    /\ pc' = "raised"
    /\ UNCHANGED <<emails, output_json, results, processed_ids, loop_i, runs>>
    /\ UNCHANGED notMain

\* KeyboardInterrupt while json.dump writes: open(.., "w") has emptied
\* output.json and the results list is not written to its end
MainInterruptedDump ==
    /\ pc = "loop"
    /\ loop_i <= Len(emails)
    /\ emails[loop_i] \notin processed_ids
    /\ \E r \in Shipments(emails[loop_i]) : results' = Append(results, r)
    /\ calls' = [calls EXCEPT ![emails[loop_i]] = @ + 1]
    /\ output_json' = CutFile
    /\ pc' = "raised"
    /\ UNCHANGED <<emails, processed_ids, loop_i, runs>>
    /\ UNCHANGED notMain

\* the loop is over: main returns
MainDone ==
    /\ pc = "loop"
    /\ loop_i > Len(emails)
    /\ pc' = "done"
    /\ UNCHANGED <<emails, output_json, results, processed_ids, loop_i, calls, runs>>
    /\ UNCHANGED notMain

NextMain ==
    \/ MainResume
    \/ MainSkip
    \/ MainProcess
    \/ MainException
    \/ MainKeyboardInterrupt
    \/ MainInterruptedDump
    \/ MainDone
SpecMain == InitMain /\ [][NextMain]_vars

\* the results output.json holds
Saved == LoadResults(output_json)
IsPrefix(s, t) == Len(s) <= Len(t) /\ \A k \in 1..Len(s) : s[k] = t[k]
\* a step in which extract_single_email is called for the id
Extracts(email_id) == calls'[email_id] > calls[email_id]
\* no email whose id has a result in output.json is extracted
NoSecondExtraction ==
    \A email_id \in EmailIds : Extracts(email_id) => email_id \notin IdsOf(Saved)
\* what was saved stays, in its order, ahead of what is saved later
SavedStaysAhead ==
    /\ IsPrefix(Saved, LoadResults(output_json'))
    /\ MainProcess => LoadResults(output_json') = results'
\* output.json lacks at most the last of the results of the run
AtMostInFlightLost ==
    pc \in {"loop", "raised", "done"} =>
        /\ IsPrefix(Saved, results)
        /\ Len(results) <= Len(Saved) + 1
\* one result for each id of the input
OneResultPerId ==
    \A k \in 1..Len(emails) :
        Cardinality({n \in 1..Len(Saved) : Saved[n].id = emails[k]}) = 1

\* C23: across any sequence of runs of main, each possibly aborted by an
\* exception or an interrupt at any email, an email whose id has a result in
\* output.json is never extracted again, output.json is rewritten with the
\* full results list after every processed email so that at most the email in
\* flight is lost, saved results keep their order ahead of new ones, and after
\* a run that completes output.json holds exactly one result per input id.
C23_ResumeSafety ==
    /\ [][NoSecondExtraction /\ SavedStaysAhead]_vars
    /\ [](AtMostInFlightLost /\ (pc = "done" => OneResultPerId))

====
